---------------------------- MODULE Spec2Model ----------------------------
(***************************************************************************)
(* The visitor-to-lead enrichment pipeline of src/main.py.                 *)
(*                                                                         *)
(* State: the configuration read by get_settings, the wall clock, the four *)
(* SQLite tables (visitors, companies, contacts, leads) with their         *)
(* AUTOINCREMENT counters, and a record of the most recent pipeline run;   *)
(* world holds the events that may arrive and the answers the external     *)
(* services may give in the behaviours explored.                           *)
(* One action per handler: process_visitor and process_rb2b_lead run from  *)
(* their first line to their return (or to the exception that ends them);  *)
(* the answers of the external services are the inputs of the run.         *)
(* SpecServer adds the web server: a webhook handler queues a task and     *)
(* answers (tasks, ack), and the queued tasks interleave at their awaits.  *)
(* SpecStages takes one step per await of a task, so that the order of     *)
(* the stages, the save and the alert is observed between steps.           *)
(*                                                                         *)
(* Python dicts are functions whose DOMAIN is the set of keys present, so  *)
(* that d.get(k, default) is modelled by what it does.  Strings that the   *)
(* code slices or splits are sequences of one-character strings; Str joins *)
(* them into a string.  Python's None is the string NULL for text values   *)
(* and NoId for row ids.                                                   *)
(***************************************************************************)
EXTENDS Integers, Sequences, FiniteSets, TLC

VARIABLES settings, world, now, db, last, nruns, tasks, ack

vars == <<settings, world, now, db, last, nruns, tasks, ack>>

-----------------------------------------------------------------------------
(* Bounds of the model *)

\* pipeline runs explored in one behaviour
MaxRuns == 2

\* seconds the wall clock may advance
MaxTime == 1

-----------------------------------------------------------------------------
(* Python values *)

NULL == "NULL"

\* company_id = None
NoId == 0

\* d.get(k, default)
Get(d, k, default) == IF k \in DOMAIN d THEN d[k] ELSE default

\* d.get(k): None when the key is absent
GetOrNone(d, k) == Get(d, k, NULL)

\* truthiness of a text value: None and "" are falsy
Truthy(s) == s # NULL /\ s # ""

\* a or b, for text values
Or(a, b) == IF Truthy(a) THEN a ELSE b

\* a or b, for strings held as character sequences
OrChars(a, b) == IF a # <<>> THEN a ELSE b

EmptyDict == [k \in {} |-> ""]

-----------------------------------------------------------------------------
(* Strings as sequences of characters *)

RECURSIVE Str(_)
Str(cs) == IF cs = <<>> THEN "" ELSE Head(cs) \o Str(Tail(cs))

\* s[:n]
Take(cs, n) == SubSeq(cs, 1, IF Len(cs) < n THEN Len(cs) ELSE n)

\* s[n:]
Drop(cs, n) == SubSeq(cs, n + 1, Len(cs))

Positions(cs, ch) == {i \in 1..Len(cs) : cs[i] = ch}

MinOf(S) == CHOOSE x \in S : \A y \in S : x <= y

MaxOf(S) == CHOOSE x \in S : \A y \in S : x >= y

\* s.split(ch)[0]
SplitFirst(cs, ch) ==
    IF Positions(cs, ch) = {} THEN cs ELSE Take(cs, MinOf(Positions(cs, ch)) - 1)

\* s.split(ch)[-1]
SplitLast(cs, ch) ==
    IF Positions(cs, ch) = {} THEN cs ELSE Drop(cs, MaxOf(Positions(cs, ch)))

IsPrefix(p, cs) == Len(p) <= Len(cs) /\ SubSeq(cs, 1, Len(p)) = p

\* s.replace(pat, ""): every non-overlapping occurrence, left to right
RECURSIVE Remove(_, _)
Remove(cs, pat) ==
    IF cs = <<>> THEN <<>>
    ELSE IF IsPrefix(pat, cs) THEN Remove(Drop(cs, Len(pat)), pat)
    ELSE <<Head(cs)>> \o Remove(Tail(cs), pat)

UpperToLower ==
    [c \in {"A","B","C","D","E","F","G","H","I","J","K","L","M","N","O","P","Q",
            "R","S","T","U","V","W","X","Y","Z"} |->
       CASE c = "A" -> "a" [] c = "B" -> "b" [] c = "C" -> "c" [] c = "D" -> "d"
         [] c = "E" -> "e" [] c = "F" -> "f" [] c = "G" -> "g" [] c = "H" -> "h"
         [] c = "I" -> "i" [] c = "J" -> "j" [] c = "K" -> "k" [] c = "L" -> "l"
         [] c = "M" -> "m" [] c = "N" -> "n" [] c = "O" -> "o" [] c = "P" -> "p"
         [] c = "Q" -> "q" [] c = "R" -> "r" [] c = "S" -> "s" [] c = "T" -> "t"
         [] c = "U" -> "u" [] c = "V" -> "v" [] c = "W" -> "w" [] c = "X" -> "x"
         [] c = "Y" -> "y" [] c = "Z" -> "z"]

\* s.lower()
Lower(cs) == [i \in 1..Len(cs) |-> Get(UpperToLower, cs[i], cs[i])]

\* f"{a} {b}".strip() for components without surrounding blanks
JoinStrip(a, b) ==
    IF a = "" THEN b ELSE IF b = "" THEN a ELSE a \o " " \o b

-----------------------------------------------------------------------------
(* Configuration: get_settings reads the process environment *)

get_settings(apollo, hunter, openai, slack) ==
    [apollo_api_key |-> apollo, hunter_api_key |-> hunter,
     openai_api_key |-> openai, ipinfo_token |-> "",
     slack_webhook_url |-> slack]

Environments ==
    {get_settings(a, h, o, s) :
        a \in {"", "apollo-key"}, h \in {"", "hunter-key"},
        o \in {"", "sk-openai"}, s \in {"", "https://hooks.slack.test/T1"}}

-----------------------------------------------------------------------------
(* External resolvers.  Each takes the answer of its service as a         *)
(* parameter: [kind |-> "exception"] for a transport error or timeout,     *)
(* [kind |-> "http", status |-> n, ...] for a response.                    *)

Exception == [kind |-> "exception"]

Http(status) == [kind |-> "http", status |-> status]

Failure(error) == [success |-> FALSE, error |-> error]

\* line 179: not ip_address or ip_address in ["127.0.0.1", "localhost", "::1", ""]
ipinfo_short_circuit(ip_address) ==
    ~Truthy(ip_address) \/ ip_address \in {"127.0.0.1", "localhost", "::1", ""}

LegalSuffixes ==
    << <<"i","n","c">>, <<"l","l","c">>, <<"l","t","d">>, <<"c","o","r","p">>,
       <<"c","o","r","p","o","r","a","t","i","o","n">>, <<"p","v","t">>,
       <<"p","r","i","v","a","t","e">>, <<"l","i","m","i","t","e","d">> >>

RECURSIVE StripSuffixes(_, _)
StripSuffixes(clean, i) ==
    IF i > Len(LegalSuffixes) THEN clean
    ELSE StripSuffixes(Remove(clean, LegalSuffixes[i]), i + 1)

\* lines 195-197: the org string without its first blank-separated token
company_name_of(org) ==
    IF org = <<>> THEN <<>>
    ELSE IF Positions(org, " ") = {} THEN org
    ELSE Drop(org, MinOf(Positions(org, " ")))

\* lines 200-206: the guessed domain
guess_domain(company_name) ==
    IF company_name = <<>> THEN <<>>
    ELSE LET clean == StripSuffixes(
                 Remove(Remove(Remove(Lower(company_name), <<" ">>), <<",">>), <<".">>), 1)
         IN  IF Len(clean) > 2 THEN Take(clean, 20) \o <<".","c","o","m">> ELSE <<>>

lookup_company_from_ip(ip_address, token, resp) ==
    IF ipinfo_short_circuit(ip_address) THEN Failure("Local/missing IP")
    ELSE IF resp.kind = "exception" THEN Failure("exception")
    ELSE IF resp.status = 200
    THEN LET data == resp.body
             org == Get(data, "org", <<>>)
             company_name == company_name_of(org)
         IN  [success |-> TRUE,
              data |-> [ip |-> ip_address,
                        company_name |-> Str(company_name),
                        domain |-> Str(guess_domain(company_name)),
                        city |-> Get(data, "city", ""),
                        region |-> Get(data, "region", ""),
                        country |-> Get(data, "country", ""),
                        org |-> org]]
    ELSE Failure("Status")

\* a resolver that looks at its credential alone
short_circuit_on_key(domain, api_key) == ~Truthy(api_key)

\* line 228: not api_key or not domain
apollo_short_circuit(domain, api_key) == ~Truthy(api_key) \/ ~Truthy(domain)

enrich_company_apollo(domain, api_key, resp) ==
    IF apollo_short_circuit(domain, api_key) THEN Failure("Missing API key or domain")
    ELSE IF resp.kind = "exception" THEN Failure("exception")
    ELSE IF resp.status = 200
    THEN LET org == Get(resp.body, "organization", EmptyDict)
         IN  IF DOMAIN org = {} THEN Failure("No data found")
             ELSE [success |-> TRUE,
                   data |-> [name |-> Get(org, "name", ""),
                             domain |-> Get(org, "primary_domain", domain),
                             industry |-> Get(org, "industry", "Unknown"),
                             employee_count |-> Get(org, "estimated_num_employees", 0),
                             country |-> Get(org, "country", ""),
                             city |-> Get(org, "city", ""),
                             description |-> Get(org, "short_description", ""),
                             funding_stage |-> Get(org, "latest_funding_stage", ""),
                             total_funding |-> Get(org, "total_funding", 0),
                             annual_revenue |-> Get(org, "annual_revenue", 0),
                             linkedin_url |-> Get(org, "linkedin_url", "")]]
    ELSE Failure("response.text")

\* line 267: not api_key or not domain
hunter_short_circuit(domain, api_key) == ~Truthy(api_key) \/ ~Truthy(domain)

\* lines 280-288: one contact per e-mail record of the provider
contact_of(e) ==
    [name |-> JoinStrip(Get(e, "first_name", ""), Get(e, "last_name", "")),
     email |-> Get(e, "value", ""),
     title |-> Get(e, "position", ""),
     department |-> Get(e, "department", ""),
     seniority |-> Get(e, "seniority", ""),
     linkedin_url |-> Get(e, "linkedin", ""),
     confidence |-> Get(e, "confidence", 0)]

\* a resolver that keeps every record of the answer
find_contacts_unsliced(domain, api_key, resp) ==
    IF hunter_short_circuit(domain, api_key) THEN [success |-> FALSE, contacts |-> <<>>]
    ELSE IF resp.kind = "exception" THEN [success |-> FALSE, contacts |-> <<>>]
    ELSE IF resp.status = 200
    THEN [success |-> TRUE,
          contacts |-> [i \in 1..Len(resp.emails) |-> contact_of(resp.emails[i])]]
    ELSE [success |-> FALSE, contacts |-> <<>>]

find_contacts_hunter(domain, api_key, resp) ==
    IF hunter_short_circuit(domain, api_key) THEN [success |-> FALSE, contacts |-> <<>>]
    ELSE IF resp.kind = "exception" THEN [success |-> FALSE, contacts |-> <<>>]
    ELSE IF resp.status = 200
    THEN LET emails == Take(resp.emails, 5)
         IN  [success |-> TRUE, contacts |-> [i \in 1..Len(emails) |-> contact_of(emails[i])]]
    ELSE [success |-> FALSE, contacts |-> <<>>]

\* line 296: not api_key
openai_short_circuit(api_key) == ~Truthy(api_key)

\* resp.content is what json.loads makes of the completion: "invalid" when it
\* raises, "object" with the parsed dict, "array" for well-formed JSON that is
\* no object.
score_lead_openai(api_key, resp) ==
    IF openai_short_circuit(api_key) THEN Failure("No OpenAI key")
    ELSE IF resp.kind = "exception" THEN Failure("exception")
    ELSE IF resp.status = 200
    THEN IF resp.content.parse = "invalid" THEN Failure("json")
         ELSE [success |-> TRUE, data |-> resp.content]
    ELSE Failure("response.text")

-----------------------------------------------------------------------------
(* The persistent store (init_db, lines 66-173): sets of rows, and the     *)
(* sqlite_sequence counter of each AUTOINCREMENT table.  Foreign keys are  *)
(* declared but SQLite does not enforce them unless asked to.              *)

EmptyDb ==
    [visitors |-> {}, companies |-> {}, contacts |-> {}, leads |-> {},
     seq |-> [visitors |-> 0, companies |-> 0, contacts |-> 0, leads |-> 0]]

\* INSERT INTO visitors (lines 565-568)
save_visitor(d, visitor, ip) ==
    LET id == d.seq.visitors + 1
        row == [id |-> id,
                session_id |-> Str(visitor.session_id),
                ip_address |-> ip,
                pages_viewed |-> visitor.pages_viewed,
                visit_duration |-> visitor.visit_duration,
                referrer |-> visitor.referrer,
                user_agent |-> visitor.user_agent]
    IN  [d EXCEPT !.visitors = @ \cup {row}, !.seq.visitors = id]

\* The row INSERT OR REPLACE INTO companies writes (lines 529-534, 579-584):
\* eleven columns are named; annual_revenue is not among them and takes its
\* DEFAULT 0 (line 96).
company_row(id, company) ==
    [id |-> id,
     domain |-> company["domain"],
     name |-> GetOrNone(company, "name"),
     industry |-> GetOrNone(company, "industry"),
     employee_count |-> Get(company, "employee_count", 0),
     country |-> GetOrNone(company, "country"),
     city |-> GetOrNone(company, "city"),
     description |-> GetOrNone(company, "description"),
     funding_stage |-> GetOrNone(company, "funding_stage"),
     total_funding |-> Get(company, "total_funding", 0),
     annual_revenue |-> 0,
     linkedin_url |-> GetOrNone(company, "linkedin_url"),
     enriched_data |-> company]

\* INSERT OR REPLACE on the UNIQUE domain (line 87): a row with the same domain
\* is deleted and a new row is inserted under a fresh AUTOINCREMENT id.
companies_insert_or_replace(d, company) ==
    LET id == d.seq.companies + 1
    IN  [d EXCEPT !.companies =
                      {r \in @ : r.domain # company["domain"]} \cup {company_row(id, company)},
                  !.seq.companies = id]

\* INSERT OR IGNORE INTO contacts (lines 542-545, 589-592): the table has no
\* UNIQUE constraint besides its own id (lines 104-115), so nothing is ignored.
contacts_insert_or_ignore(d, company_id, c) ==
    LET id == d.seq.contacts + 1
        row == [id |-> id,
                company_id |-> company_id,
                name |-> GetOrNone(c, "name"),
                email |-> GetOrNone(c, "email"),
                title |-> GetOrNone(c, "title"),
                seniority |-> GetOrNone(c, "seniority"),
                department |-> GetOrNone(c, "department"),
                linkedin_url |-> GetOrNone(c, "linkedin_url"),
                confidence |-> Get(c, "confidence", 0)]
    IN  [d EXCEPT !.contacts = @ \cup {row}, !.seq.contacts = id]

\* for c in contacts (lines 541, 588)
RECURSIVE save_contacts(_, _, _, _)
save_contacts(d, company_id, contacts, i) ==
    IF i > Len(contacts) THEN d
    ELSE save_contacts(contacts_insert_or_ignore(d, company_id, contacts[i]),
                       company_id, contacts, i + 1)

\* the company and its contacts saved whatever the domain
save_company_always(d, company, contacts) ==
    [db |-> save_contacts(companies_insert_or_replace(d, company),
                          companies_insert_or_replace(d, company).seq.companies, contacts, 1),
     company_id |-> companies_insert_or_replace(d, company).seq.companies]

\* lines 526-545, 576-592: the company and its contacts, when the company
\* record has a domain
save_company(d, company, contacts) ==
    IF Truthy(GetOrNone(company, "domain"))
    THEN LET d1 == companies_insert_or_replace(d, company)
             company_id == d1.seq.companies
         IN  [db |-> save_contacts(d1, company_id, contacts, 1), company_id |-> company_id]
    ELSE [db |-> d, company_id |-> NoId]

\* an upsert of the lead: INSERT OR REPLACE INTO leads
leads_insert_or_replace(d, row) ==
    [ok |-> TRUE,
     db |-> [d EXCEPT !.leads = {l \in @ : l.lead_id # row.lead_id}
                                    \cup {[row EXCEPT !.id = d.seq.leads + 1]},
                      !.seq.leads = d.seq.leads + 1]]

\* INSERT INTO leads: lead_id is UNIQUE (line 121); a second row with the same
\* lead_id raises sqlite3.IntegrityError.
leads_insert(d, row) ==
    IF \E l \in d.leads : l.lead_id = row.lead_id
    THEN [ok |-> FALSE, db |-> d]
    ELSE LET id == d.seq.leads + 1
         IN  [ok |-> TRUE,
              db |-> [d EXCEPT !.leads = @ \cup {[row EXCEPT !.id = id]}, !.seq.leads = id]]

\* every statement committed on its own (autocommit)
commit_each_statement(d, company_saved, lead_saved) ==
    IF lead_saved.ok THEN [ok |-> TRUE, db |-> lead_saved.db, company_id |-> company_saved.company_id]
    ELSE [ok |-> FALSE, db |-> company_saved.db, company_id |-> NoId]

\* One connection, one transaction (lines 573-607): commit is reached only
\* when every statement succeeded; an exception leaves the connection
\* uncommitted and its writes are rolled back when it is closed.
commit(d, company_saved, lead_saved) ==
    IF lead_saved.ok THEN [ok |-> TRUE, db |-> lead_saved.db, company_id |-> company_saved.company_id]
    ELSE [ok |-> FALSE, db |-> d, company_id |-> NoId]

save_lead(d, lead_id, company, contacts, visitor, scoring, ip, identified, source, person) ==
    LET company_saved == save_company(d, company, contacts)
        row == [id |-> 0,
                lead_id |-> lead_id,
                company_id |-> company_saved.company_id,
                session_id |-> Str(visitor.session_id),
                ip_address |-> ip,
                identified_company |-> identified,
                pages_viewed |-> visitor.pages_viewed,
                visit_duration |-> visitor.visit_duration,
                referrer |-> visitor.referrer,
                icp_score |-> Get(scoring, "icp_score", 0),
                tier |-> Get(scoring, "tier", "cold"),
                recommended_action |-> Get(scoring, "recommended_action", ""),
                urgency |-> Get(scoring, "urgency", "low"),
                status |-> "new",
                source |-> source,
                person_name |-> Get(person, "name", ""),
                person_email |-> Get(person, "email", ""),
                person_title |-> Get(person, "title", ""),
                person_linkedin |-> Get(person, "linkedin", "")]
    IN  commit(d, company_saved, leads_insert(company_saved.db, row))

save_rb2b_lead(d, lead_id, company, contacts, scoring, person, raw_data) ==
    LET company_saved == save_company(d, company, contacts)
        row == [id |-> 0,
                lead_id |-> lead_id,
                company_id |-> company_saved.company_id,
                session_id |-> "",
                ip_address |-> "",
                identified_company |-> Get(company, "name", ""),
                pages_viewed |-> <<>>,
                visit_duration |-> 0,
                referrer |-> "",
                icp_score |-> Get(scoring, "icp_score", 0),
                tier |-> Get(scoring, "tier", "warm"),
                recommended_action |-> Get(scoring, "recommended_action", "send_email"),
                urgency |-> Get(scoring, "urgency", "medium"),
                status |-> "new",
                source |-> "rb2b",
                person_name |-> Get(person, "name", ""),
                person_email |-> Get(person, "email", ""),
                person_title |-> Get(person, "title", ""),
                person_linkedin |-> Get(person, "linkedin", "")]
    IN  commit(d, company_saved, leads_insert(company_saved.db, row))

-----------------------------------------------------------------------------
(* Inputs: the events that arrive and the answers the services may give *)

SessionA == <<"s","e","s","s","-","0","0","0","1","-","a">>

PublicIp == "8.8.8.8"

VisitorData(session_id, ip_address) ==
    [session_id |-> session_id, ip_address |-> ip_address,
     pages_viewed |-> <<[url |-> "/pricing"]>>, visit_duration |-> 120,
     referrer |-> "https://google.com", user_agent |-> "Mozilla/5.0"]

\* a tracking request: the posted event and the client IP receive_visitor
\* takes from the request (lines 665-669)
Request(ip_address, client_ip) ==
    [visitor |-> VisitorData(SessionA, ip_address), client_ip |-> client_ip]

\* every way the resolved IP can be local (from the event, or from the client
\* when the event has none, whatever the other says), and a public IP from
\* either side
VisitRequests ==
    {Request(ip, "") : ip \in {NULL, "", "127.0.0.1", "::1", "localhost"}}
        \cup {Request(NULL, "127.0.0.1"), Request("", "127.0.0.1"),
              Request("localhost", PublicIp),
              Request(PublicIp, "127.0.0.1"), Request(NULL, PublicIp)}

JohnEmail ==
    <<"j","o","h","n",".","s","m","i","t","h","@","s","h","o","p","i","f","y",".","c","o","m">>

AmyEmail == <<"a","m","y","@","a","c","m","e",".","i","o">>

NoAtEmail == <<"n","o","b","o","d","y">>

\* an e-mail with two "@"
TwoAtEmail == <<"j","@","x","@","s","h","o","p","i","f","y",".","c","o","m">>

\* the sample of test_rb2b (lines 682-689)
SampleEvent ==
    [x \in {"First Name", "Last Name", "Title", "Company", "LinkedIn URL"} |->
        CASE x = "First Name" -> "John" [] x = "Last Name" -> "Smith"
          [] x = "Title" -> "VP of Marketing" [] x = "Company" -> "Shopify"
          [] x = "LinkedIn URL" -> "https://www.linkedin.com/in/johnsmith/"]

\* a dict with one more key
With(d, k, v) == [x \in DOMAIN d \cup {k} |-> IF x = k THEN v ELSE d[x]]

SnakeEvent ==
    [x \in {"first_name", "title"} |-> CASE x = "first_name" -> "Amy" [] x = "title" -> "CTO"]

Rb2bEvents ==
    {With(SampleEvent, "Email", JohnEmail),
     With(With(SnakeEvent, "Email", <<>>), "email", AmyEmail),
     With(SampleEvent, "Email", NoAtEmail),
     SampleEvent,
     With(SampleEvent, "Email", <<>>),
     With(SampleEvent, "email", <<>>),
     With(With(SampleEvent, "Email", <<>>), "email", <<>>)}

ShopifyOrg == <<"1","4","0","6","1"," ","S","h","o","p","i","f","y"," ","I","n","c">>

HpOrg == <<"7","0","1","8"," ","H","P">>

LincolnOrg == <<"6","4","5","1","2"," ","L","i","n","c","o","l","n"," ","I","n","c">>

IpinfoBodies ==
    {[x \in {"org", "city", "region", "country"} |->
        CASE x = "org" -> ShopifyOrg [] x = "city" -> "Ottawa"
          [] x = "region" -> "Ontario" [] x = "country" -> "CA"],
     [x \in {"org"} |-> HpOrg],
     [x \in {"country"} |-> "US"]}

IpinfoResponses ==
    {Exception, Http(500)} \cup {[kind |-> "http", status |-> 200, body |-> b] : b \in IpinfoBodies}

OrgOne ==
    [x \in {"name", "industry", "estimated_num_employees", "country", "city",
            "short_description", "latest_funding_stage", "total_funding",
            "annual_revenue", "linkedin_url"} |->
        CASE x = "name" -> "Shopify" [] x = "industry" -> "E-commerce"
          [] x = "estimated_num_employees" -> 8000 [] x = "country" -> "Canada"
          [] x = "city" -> "Ottawa" [] x = "short_description" -> "Commerce platform"
          [] x = "latest_funding_stage" -> "IPO" [] x = "total_funding" -> 122
          [] x = "annual_revenue" -> 5600 [] x = "linkedin_url" -> "linkedin.com/company/shopify"]

OrgTwo ==
    [x \in {"name", "industry", "estimated_num_employees", "country", "city",
            "short_description", "latest_funding_stage", "total_funding",
            "annual_revenue", "linkedin_url"} |->
        CASE x = "name" -> "Shopify Inc." [] x = "industry" -> "Software"
          [] x = "estimated_num_employees" -> 11600 [] x = "country" -> "United States"
          [] x = "city" -> "New York" [] x = "short_description" -> "Internet infrastructure"
          [] x = "latest_funding_stage" -> "Public" [] x = "total_funding" -> 150
          [] x = "annual_revenue" -> 7100 [] x = "linkedin_url" -> "linkedin.com/company/shopify-inc"]

\* an organization the provider knows under no domain
OrgNoDomain ==
    [x \in {"name", "primary_domain"} |->
        CASE x = "name" -> "Stealth Co" [] x = "primary_domain" -> ""]

ApolloBodies ==
    {EmptyDict} \cup {[x \in {"organization"} |-> o] : o \in {OrgOne, OrgTwo, OrgNoDomain}}

ApolloResponses ==
    {Exception, Http(500)} \cup {[kind |-> "http", status |-> 200, body |-> b] : b \in ApolloBodies}

HunterOne ==
    [x \in {"first_name", "last_name", "value", "position", "confidence"} |->
        CASE x = "first_name" -> "Tobi" [] x = "last_name" -> "L"
          [] x = "value" -> "tobi@shopify.com" [] x = "position" -> "CEO"
          [] x = "confidence" -> 97]

HunterTwo ==
    [x \in {"first_name", "value"} |->
        CASE x = "first_name" -> "Harley" [] x = "value" -> "harley@shopify.com"]

\* an answer with one record more than the resolver keeps
HunterSix ==
    [n \in 1..6 |->
        [x \in {"first_name", "value"} |->
            IF x = "first_name" THEN "Contact" ELSE "c" \o ToString(n) \o "@shopify.com"]]

HunterResponses ==
    {Exception, Http(500)}
        \cup {[kind |-> "http", status |-> 200, emails |-> e] :
                 e \in {<<>>, <<HunterOne, HunterTwo>>}}

\* the parsed completion: a JSON object with the score and the tier given
\* (either may be missing)
ScoringObject(score, tier) ==
    [x \in {"icp_score", "tier", "recommended_action", "urgency"} |->
        CASE x = "icp_score" -> score [] x = "tier" -> tier
          [] x = "recommended_action" -> "book_demo" [] x = "urgency" -> "high"]

Without(d, k) == [x \in DOMAIN d \ {k} |-> d[x]]

\* scores on both sides of the +15 thresholds (35, 55), the two of the
\* score-bonus examples (60, 90) and one above 100; tiers that agree and
\* disagree with the score
ScoringObjects ==
    {ScoringObject(s, "cold") : s \in {34, 35, 54, 55, 60, 90}}
        \cup {ScoringObject(s, "hot") : s \in {34, 35, 120}}
        \cup {Without(ScoringObject(34, "cold"), "icp_score"),
              Without(ScoringObject(34, "cold"), "tier")}

OpenaiContents ==
    {[parse |-> "invalid"], [parse |-> "array"]}
        \cup {[parse |-> "object", value |-> o] : o \in ScoringObjects}

OpenaiResponses ==
    {Exception, Http(500)}
        \cup {[kind |-> "http", status |-> 200, content |-> c] : c \in OpenaiContents}

-----------------------------------------------------------------------------
(* The record of a pipeline run, kept for the properties: the event it was *)
(* given, which outbound requests it issued (in order), and what it ended  *)
(* with.  outcome is "skipped" (local IP), "aborted" (no email), "done"    *)
(* (returned normally) or "crashed" (an exception ended the task).  engine *)
(* is what score_lead_openai returned: "failed", an "object" (kept in raw) *)
(* or JSON that is no object ("array").                                    *)

NoRun ==
    [n |-> 0, kind |-> "none", outcome |-> "none", event |-> EmptyDict, client_ip |-> "",
     ip |-> "", email |-> "", org |-> <<>>,
     identified |-> "", domain |-> "", company |-> EmptyDict, contacts |-> <<>>,
     engine |-> "none", raw |-> EmptyDict, scoring |-> EmptyDict, lead_id |-> "",
     company_id |-> NoId, calls |-> <<>>, asked |-> EmptyDict, alert |-> "none",
     enrichment |-> [success |-> FALSE, data |-> EmptyDict]]

engine_outcome(result) == IF result.success THEN result.data.parse ELSE "failed"

engine_data(result) ==
    IF result.success /\ result.data.parse = "object" THEN result.data.value ELSE EmptyDict

\* lines 423-425, 499-500: what the scoring engine is asked about
scoring_request(company, contacts, visit_data, person) ==
    [company |-> company, contacts |-> contacts, visit_data |-> visit_data,
     person_data |-> person]

\* line 423
visitor_visit_data(visitor) ==
    [pages_viewed |-> visitor.pages_viewed, visit_duration |-> visitor.visit_duration,
     referrer |-> visitor.referrer]

\* line 499
rb2b_visit_data == [pages_viewed |-> <<>>, visit_duration |-> 0, referrer |-> ""]

\* the request a stage adds to the run's log, unless the stage is skipped
Called(skipped, service) == IF skipped THEN <<>> ELSE <<service>>

Finish(d, run) ==
    /\ db' = d
    /\ last' = run
    /\ nruns' = nruns + 1
    /\ UNCHANGED <<settings, world, now>>

-----------------------------------------------------------------------------
(* Stages shared by the two pathways *)

\* a field-level merge: the shell's name survives the resolver's record
merged_company(shell, domain, api_key, resp) ==
    IF Truthy(domain) /\ Truthy(api_key)
    THEN IF enrich_company_apollo(domain, api_key, resp).success
         THEN [k \in DOMAIN enrich_company_apollo(domain, api_key, resp).data |->
                  IF k = "name" THEN shell.name
                  ELSE enrich_company_apollo(domain, api_key, resp).data[k]]
         ELSE shell
    ELSE shell

\* lines 401-404, 467-470: the shell, or the resolver's record in its place
enriched_company(shell, domain, api_key, resp) ==
    IF Truthy(domain) /\ Truthy(api_key)
    THEN IF enrich_company_apollo(domain, api_key, resp).success
         THEN enrich_company_apollo(domain, api_key, resp).data
         ELSE shell
    ELSE shell

\* lines 401-403, 467-469: what the company resolver returned to the run; no
\* success when it was not called
apollo_result(domain, api_key, resp) ==
    IF Truthy(domain) /\ Truthy(api_key) /\ enrich_company_apollo(domain, api_key, resp).success
    THEN [success |-> TRUE, data |-> enrich_company_apollo(domain, api_key, resp).data]
    ELSE [success |-> FALSE, data |-> EmptyDict]

\* lines 400-404, 466-470: the run's company and the resolver's result
company_stage(shell, domain, api_key, resp) ==
    [company |-> enriched_company(shell, domain, api_key, resp),
     result |-> apollo_result(domain, api_key, resp)]

\* lines 408-412, 474-478
found_contacts(domain, api_key, resp) ==
    IF Truthy(domain) /\ Truthy(api_key)
    THEN IF find_contacts_hunter(domain, api_key, resp).success
         THEN find_contacts_hunter(domain, api_key, resp).contacts
         ELSE <<>>
    ELSE <<>>

\* an alert for every lead, whatever its tier
alert_any_tier(webhook_url, scoring) == Truthy(webhook_url)

\* lines 434, 515: settings.get("slack_webhook_url") and scoring.get("tier") == "hot"
should_alert(webhook_url, scoring) ==
    Truthy(webhook_url) /\ Get(scoring, "tier", NULL) = "hot"

\* lines 431-437, 511-519: the run after its save; a hot lead is alerted
Saved(d, run, scoring, saved) ==
    IF saved.ok
    THEN Finish(saved.db,
                [run EXCEPT !.outcome = "done", !.scoring = scoring,
                            !.company_id = saved.company_id,
                            !.calls = @ \o Called(~should_alert(settings.slack_webhook_url, scoring),
                                                  "slack")])
    \* sqlite3.IntegrityError ends the task with what the save left in the store
    ELSE Finish(saved.db, [run EXCEPT !.outcome = "crashed", !.scoring = scoring])

-----------------------------------------------------------------------------
(* process_visitor (lines 375-437) *)

\* line 378: visitor.ip_address or client_ip or ""
resolved_ip(visitor, client_ip) == Or(visitor.ip_address, Or(client_ip, ""))

\* a check that forgets the literal host name
is_loopback_address(ip) == ~Truthy(ip) \/ ip \in {"127.0.0.1", "::1"}

\* line 386: not ip or ip in ["127.0.0.1", "::1", "localhost"]
is_local_ip(ip) == ~Truthy(ip) \/ ip \in {"127.0.0.1", "::1", "localhost"}

\* line 390
visitor_lead_id(t, visitor) ==
    "lead_" \o ToString(t) \o "_" \o Str(Take(visitor.session_id, 8))

\* lines 394-395
ip_field(ip_result, k) == IF ip_result.success THEN ip_result.data[k] ELSE ""

\* the org string of the resolver's answer (line 217), kept with the run
ip_org(ip_result) == IF ip_result.success THEN ip_result.data.org ELSE <<>>

\* line 400: the company shell of the tracking pathway
visitor_shell(identified, domain, country) ==
    [name |-> Or(identified, "Unknown"), domain |-> domain, industry |-> "Unknown",
     employee_count |-> 0, country |-> country]

\* lines 416-420
visitor_default_scoring ==
    [x \in {"icp_score", "tier", "recommended_action", "urgency"} |->
        CASE x = "icp_score" -> 30 [] x = "tier" -> "cold"
          [] x = "recommended_action" -> "skip" [] x = "urgency" -> "low"]

\* a gate on the credential alone
scoring_gate_on_key(api_key, identified) == Truthy(api_key)

\* line 422: settings.get("openai_api_key") and identified
visitor_scoring_gate(api_key, identified) == Truthy(api_key) /\ Truthy(identified)

\* lines 430-431
VisitorSave(d, run, visitor, scoring) ==
    Saved(d, run, scoring,
          save_lead(d, run.lead_id, run.company, run.contacts, visitor, scoring,
                    run.ip, run.identified, "tracking", EmptyDict))

\* lines 415-428
VisitorScored(d, run, visitor, result) ==
    IF result.success
    THEN IF result.data.parse = "object"
         THEN VisitorSave(d, run, visitor, result.data.value)
         \* line 428: scoring.get on a value that is no dict
         ELSE Finish(d, [run EXCEPT !.outcome = "crashed"])
    ELSE VisitorSave(d, run, visitor, visitor_default_scoring)

\* lines 399-425
VisitorEnrich(d, run, visitor, identified, domain, country) ==
    \E enriched \in {company_stage(visitor_shell(identified, domain, country), domain,
                                    settings.apollo_api_key, r) : r \in world.apollo} :
    \E contacts \in {found_contacts(domain, settings.hunter_api_key, r) : r \in world.hunter} :
    \E result \in IF visitor_scoring_gate(settings.openai_api_key, identified)
                  THEN {score_lead_openai(settings.openai_api_key, r) : r \in world.openai}
                  ELSE {Failure("not called")} :
        VisitorScored(d,
            [run EXCEPT
                !.identified = identified, !.domain = domain,
                !.company = enriched.company, !.enrichment = enriched.result,
                !.contacts = contacts,
                !.engine = engine_outcome(result), !.raw = engine_data(result),
                !.asked = IF visitor_scoring_gate(settings.openai_api_key, identified)
                          THEN scoring_request(enriched.company, contacts,
                                               visitor_visit_data(visitor), EmptyDict)
                          ELSE EmptyDict,
                !.calls = Called(ipinfo_short_circuit(run.ip), "ipinfo")
                    \o Called(apollo_short_circuit(domain, settings.apollo_api_key), "apollo")
                    \o Called(hunter_short_circuit(domain, settings.hunter_api_key), "hunter")
                    \o Called(~visitor_scoring_gate(settings.openai_api_key, identified), "openai")],
            visitor, result)

\* lines 392-395
VisitorLookup(d, run, visitor, ip_result) ==
    VisitorEnrich(d, [run EXCEPT !.org = ip_org(ip_result)], visitor,
                  ip_field(ip_result, "company_name"),
                  ip_field(ip_result, "domain"), ip_field(ip_result, "country"))

\* the visit recorded only after the local-IP check
VisitorStartAfterCheck(visitor, ip, run) ==
    IF is_local_ip(ip)
    THEN Finish(db, [run EXCEPT !.outcome = "skipped"])
    ELSE \E ip_result \in {lookup_company_from_ip(ip, settings.ipinfo_token, r) :
                              r \in world.ipinfo} :
            VisitorLookup(save_visitor(db, visitor, ip),
                          [run EXCEPT !.lead_id = visitor_lead_id(now, visitor)],
                          visitor, ip_result)

\* lines 382-393
VisitorStart(visitor, ip, run) ==
    IF is_local_ip(ip)
    THEN Finish(save_visitor(db, visitor, ip), [run EXCEPT !.outcome = "skipped"])
    ELSE \E ip_result \in {lookup_company_from_ip(ip, settings.ipinfo_token, r) :
                              r \in world.ipinfo} :
            VisitorLookup(save_visitor(db, visitor, ip),
                          [run EXCEPT !.lead_id = visitor_lead_id(now, visitor)],
                          visitor, ip_result)

ProcessVisitor(visitor, client_ip) ==
    /\ nruns < MaxRuns
    /\ VisitorStart(visitor, resolved_ip(visitor, client_ip),
                    [NoRun EXCEPT !.n = nruns + 1, !.kind = "visitor",
                                  !.event = visitor, !.client_ip = client_ip,
                                  !.ip = resolved_ip(visitor, client_ip)])
    /\ UNCHANGED <<tasks, ack>>

-----------------------------------------------------------------------------
(* process_rb2b_lead (lines 441-519) *)

\* line 446
rb2b_email(rb2b_data) == OrChars(Get(rb2b_data, "Email", <<>>), Get(rb2b_data, "email", <<>>))

\* lines 447-452: an attribute under its header-style or its snake-case key
rb2b_field(rb2b_data, header, snake) == Or(Get(rb2b_data, header, ""), Get(rb2b_data, snake, ""))

\* lines 482-487
person_data(rb2b_data) ==
    [name |-> JoinStrip(rb2b_field(rb2b_data, "First Name", "first_name"),
                        rb2b_field(rb2b_data, "Last Name", "last_name")),
     email |-> Str(rb2b_email(rb2b_data)),
     title |-> rb2b_field(rb2b_data, "Title", "title"),
     linkedin |-> rb2b_field(rb2b_data, "LinkedIn URL", "linkedin_url")]

\* the local part taken for the domain: email.split("@")[0]
email_local_part(email) == IF Positions(email, "@") # {} THEN SplitFirst(email, "@") ELSE <<>>

\* the part after the first "@"
email_after_first_at(email) ==
    IF Positions(email, "@") # {} THEN Drop(email, MinOf(Positions(email, "@"))) ELSE <<>>

\* line 459: email.split("@")[-1] if "@" in email else ""
email_domain(email) == IF Positions(email, "@") # {} THEN SplitLast(email, "@") ELSE <<>>

\* an identifier that shares the prefix of the tracking pathway
unprefixed_lead_id(t, email) ==
    "lead_" \o ToString(t) \o "_" \o Str(Take(SplitFirst(email, "@"), 8))

\* line 463
rb2b_lead_id(t, email) ==
    "rb2b_" \o ToString(t) \o "_" \o Str(Take(SplitFirst(email, "@"), 8))

\* line 466: the company shell of the identified-person pathway
rb2b_shell(company_name, domain) ==
    [name |-> Or(company_name, domain), domain |-> domain, industry |-> "Unknown",
     employee_count |-> 0, country |-> ""]

\* a default that takes the +15 bonus and its tier
rb2b_bonused_default ==
    [x \in {"icp_score", "tier", "recommended_action", "urgency"} |->
        CASE x = "icp_score" -> 75 [] x = "tier" -> "hot"
          [] x = "recommended_action" -> "send_email" [] x = "urgency" -> "medium"]

\* lines 490-496
rb2b_default_scoring ==
    [x \in {"icp_score", "tier", "recommended_action", "urgency"} |->
        CASE x = "icp_score" -> 60 [] x = "tier" -> "warm"
          [] x = "recommended_action" -> "send_email" [] x = "urgency" -> "medium"]

\* the engine's tier kept as returned
engine_tier(scoring) == scoring

\* lines 505-508: the tier re-derived from the bonused score
rederived_tier(scoring) ==
    IF scoring["icp_score"] >= 70 THEN With(scoring, "tier", "hot")
    ELSE IF scoring["icp_score"] >= 50 THEN With(scoring, "tier", "warm")
    ELSE scoring

\* the bonus without its cap
uncapped_bonus_score(data) == With(data, "icp_score", Get(data, "icp_score", 50) + 15)

\* line 504: min(100, scoring.get("icp_score", 50) + 15)
bonus_score(data) ==
    With(data, "icp_score",
         IF Get(data, "icp_score", 50) + 15 < 100 THEN Get(data, "icp_score", 50) + 15 ELSE 100)

\* lines 502-508
rb2b_bonus(data) == rederived_tier(bonus_score(data))

\* lines 511-512
Rb2bSave(run, scoring, rb2b_data) ==
    Saved(db, run, scoring,
          save_rb2b_lead(db, run.lead_id, run.company, run.contacts, scoring,
                         person_data(rb2b_data), rb2b_data))

\* lines 489-509
Rb2bScored(run, rb2b_data, result) ==
    IF result.success
    THEN IF result.data.parse = "object"
         THEN Rb2bSave(run, rb2b_bonus(result.data.value), rb2b_data)
         \* line 504: scoring.get on a value that is no dict
         ELSE Finish(db, [run EXCEPT !.outcome = "crashed"])
    ELSE Rb2bSave(run, rb2b_default_scoring, rb2b_data)

\* lines 465-500
Rb2bEnrich(run, rb2b_data, company_name, domain) ==
    \E enriched \in {company_stage(rb2b_shell(company_name, domain), domain,
                                    settings.apollo_api_key, r) : r \in world.apollo} :
    \E contacts \in {found_contacts(domain, settings.hunter_api_key, r) : r \in world.hunter} :
    \E result \in {score_lead_openai(settings.openai_api_key, r) : r \in world.openai} :
        Rb2bScored(
            [run EXCEPT
                !.domain = domain, !.company = enriched.company,
                !.enrichment = enriched.result, !.contacts = contacts,
                !.engine = engine_outcome(result), !.raw = engine_data(result),
                !.asked = IF Truthy(settings.openai_api_key)
                          THEN scoring_request(enriched.company, contacts, rb2b_visit_data,
                                               person_data(rb2b_data))
                          ELSE EmptyDict,
                !.calls = Called(apollo_short_circuit(domain, settings.apollo_api_key), "apollo")
                    \o Called(hunter_short_circuit(domain, settings.hunter_api_key), "hunter")
                    \o Called(openai_short_circuit(settings.openai_api_key), "openai")],
            rb2b_data, result)

\* a check for a missing key only: email is None
email_is_none(email) == FALSE

\* line 454: not email
email_missing(email) == email = <<>>

\* lines 446-463
Rb2bStart(rb2b_data, email, run) ==
    IF email_missing(email)
    THEN Finish(db, [run EXCEPT !.outcome = "aborted"])
    ELSE Rb2bEnrich([run EXCEPT !.lead_id = rb2b_lead_id(now, email)], rb2b_data,
                    rb2b_field(rb2b_data, "Company", "company"), Str(email_domain(email)))

ProcessRb2bLead(rb2b_data) ==
    /\ nruns < MaxRuns
    /\ Rb2bStart(rb2b_data, rb2b_email(rb2b_data),
                 [NoRun EXCEPT !.n = nruns + 1, !.kind = "rb2b", !.event = rb2b_data,
                               !.email = Str(rb2b_email(rb2b_data))])
    /\ UNCHANGED <<tasks, ack>>

-----------------------------------------------------------------------------
(* The clock and the specification *)

\* datetime.now() (lines 390, 463) advances between runs
Tick ==
    /\ now < MaxTime
    /\ now' = now + 1
    /\ UNCHANGED <<settings, world, db, last, nruns, tasks, ack>>

\* Deployments with company and contact enrichment: every answer of the IP,
\* company and contact resolvers; no scoring credential, no webhook.
StoreEnvironments == {e \in Environments : e.openai_api_key = "" /\ e.slack_webhook_url = ""}

StoreWorld ==
    [visits |-> VisitRequests,
     rb2b |-> Rb2bEvents,
     ipinfo |-> IpinfoResponses,
     apollo |-> ApolloResponses,
     hunter |-> HunterResponses,
     openai |-> {Exception}]

\* Deployments with scoring and alerting: every answer of the scoring service;
\* no enrichment credential.
ScoringEnvironments == {e \in Environments : e.apollo_api_key = "" /\ e.hunter_api_key = ""}

ScoringWorld ==
    [visits |-> {Request("127.0.0.1", ""), Request(PublicIp, "")},
     rb2b |-> {With(SampleEvent, "Email", JohnEmail), SampleEvent},
     ipinfo |-> {Exception, [kind |-> "http", status |-> 200,
                             body |-> [x \in {"org"} |-> ShopifyOrg]]},
     apollo |-> {Exception},
     hunter |-> {Exception},
     openai |-> OpenaiResponses]

\* Deployments without a scoring credential, with or without any of the
\* others: the sample event of test_rb2b with an e-mail of one "@", of two
\* and of none, a visit that the IP resolver may attribute to the same company
\* or to another, the answers of the company resolver that matter to the
\* link, and a contact resolver that fails, finds nobody, or is given one
\* record more than it keeps.
ScenarioEnvironments == {e \in Environments : e.openai_api_key = ""}

ScenarioWorld ==
    [visits |-> {Request(PublicIp, "")},
     rb2b |-> {With(SampleEvent, "Email", JohnEmail), With(SampleEvent, "Email", TwoAtEmail),
               With(SampleEvent, "Email", NoAtEmail)},
     ipinfo |-> {Exception} \cup {[kind |-> "http", status |-> 200,
                                   body |-> [x \in {"org"} |-> o]] :
                                      o \in {ShopifyOrg, LincolnOrg}},
     apollo |-> {Exception} \cup {[kind |-> "http", status |-> 200,
                                   body |-> [x \in {"organization"} |-> o]] :
                                      o \in {OrgOne, OrgNoDomain}},
     hunter |-> {Exception, Http(500)}
                   \cup {[kind |-> "http", status |-> 200, emails |-> e] : e \in {<<>>, HunterSix}},
     openai |-> {Exception}]

Start ==
    /\ now = 0
    /\ db = EmptyDb
    /\ last = NoRun
    /\ nruns = 0
    /\ tasks = <<>>
    /\ ack = <<>>

Init ==
    /\ settings \in StoreEnvironments
    /\ world = StoreWorld
    /\ Start

InitScoring ==
    /\ settings \in ScoringEnvironments
    /\ world = ScoringWorld
    /\ Start

InitScenario ==
    /\ settings \in ScenarioEnvironments
    /\ world = ScenarioWorld
    /\ Start

Next ==
    \/ Tick
    \/ \E request \in world.visits : ProcessVisitor(request.visitor, request.client_ip)
    \/ \E rb2b_data \in world.rb2b : ProcessRb2bLead(rb2b_data)

Spec == Init /\ [][Next]_vars

SpecScoring == InitScoring /\ [][Next]_vars

SpecScenario == InitScenario /\ [][Next]_vars

-----------------------------------------------------------------------------
(* The web server: the two webhooks and their background tasks (lines       *)
(* 644-677).  A handler step answers the request and queues one task; the   *)
(* event loop then runs the queued coroutines, interleaving them at their   *)
(* awaits.  A task takes two steps: from its first line through its awaits  *)
(* (the resolvers and the scoring engine), and from its save to its return; *)
(* the save itself contains no await, so nothing interleaves with it.       *)

RECURSIVE LStrip(_)
LStrip(cs) == IF cs # <<>> /\ Head(cs) = " " THEN LStrip(Tail(cs)) ELSE cs

RECURSIVE RStrip(_)
RStrip(cs) ==
    IF cs # <<>> /\ cs[Len(cs)] = " " THEN RStrip(SubSeq(cs, 1, Len(cs) - 1)) ELSE cs

\* s.strip()
Strip(cs) == RStrip(LStrip(cs))

\* lines 666-670: the first X-Forwarded-For element, else X-Real-IP, else the peer
receive_client_ip(headers, client_host) ==
    OrChars(Strip(SplitFirst(Get(headers, "X-Forwarded-For", <<>>), ",")),
            OrChars(Get(headers, "X-Real-IP", <<>>), client_host))

\* a request to /webhook/visitor: its validated body, its headers and its peer
HttpRequest(headers, client_host) ==
    [visitor |-> VisitorData(SessionA, NULL), headers |-> headers,
     client_host |-> client_host]

ForwardedFor ==
    [x \in {"X-Forwarded-For"} |->
        <<"8",".","8",".","8",".","8",","," ","1","0",".","0",".","0",".","1">>]

BlankForwardedFor ==
    [x \in {"X-Forwarded-For", "X-Real-IP"} |->
        IF x = "X-Real-IP" THEN <<"8",".","8",".","8",".","8">> ELSE <<" ",",","1">>]

HttpRequests ==
    {HttpRequest(ForwardedFor, <<"1","0",".","0",".","0",".","1">>),
     HttpRequest(BlankForwardedFor, <<>>),
     HttpRequest(EmptyDict, <<"1","2","7",".","0",".","0",".","1">>)}

\* what await request.json() makes of a body (line 648): a dict, another JSON
\* value, or an exception
JsonKinds == {"object", "other", "invalid"}

\* background_tasks.add_task (lines 653, 675): the coroutine and its arguments
Task(kind, json, event, client_ip, request) ==
    [kind |-> kind, json |-> json, event |-> event, client_ip |-> client_ip,
     request |-> request, pc |-> "queued", started |-> -1, run |-> NoRun]

\* lines 655, 677
Acknowledgment(kind, client_ip) ==
    IF kind = "rb2b"
    THEN [status |-> "received", message |-> "Processing RB2B lead"]
    ELSE [status |-> "received", ip |-> client_ip]

Exchange(kind, json, response) == [kind |-> kind, json |-> json, response |-> response]

\* a handler that applies the pipeline's precondition before it accepts
Rb2bWebhookValidating(body, json) ==
    /\ Len(ack) < MaxRuns
    /\ IF json = "invalid" \/ (json = "object" /\ email_missing(rb2b_email(body)))
       THEN /\ ack' = Append(ack, Exchange("rb2b", json,
                                  [status |-> "error", message |-> "rejected"]))
            /\ tasks' = tasks
       ELSE /\ ack' = Append(ack, Exchange("rb2b", json, Acknowledgment("rb2b", "")))
            /\ tasks' = Append(tasks, Task("rb2b", json,
                                           IF json = "object" THEN body ELSE EmptyDict,
                                           "", Len(ack) + 1))
    /\ UNCHANGED <<settings, world, now, db, last, nruns>>

\* rb2b_webhook (lines 644-658)
Rb2bWebhook(body, json) ==
    /\ Len(ack) < MaxRuns
    /\ IF json = "invalid"
       THEN /\ ack' = Append(ack, Exchange("rb2b", json,
                                  [status |-> "error", message |-> "JSONDecodeError"]))
            /\ tasks' = tasks
       ELSE /\ ack' = Append(ack, Exchange("rb2b", json, Acknowledgment("rb2b", "")))
            /\ tasks' = Append(tasks, Task("rb2b", json,
                                           IF json = "object" THEN body ELSE EmptyDict,
                                           "", Len(ack) + 1))
    /\ UNCHANGED <<settings, world, now, db, last, nruns>>

\* receive_visitor (lines 662-677)
ReceiveVisitor(visitor, client_ip) ==
    /\ Len(ack) < MaxRuns
    /\ ack' = Append(ack, Exchange("visitor", "object", Acknowledgment("visitor", client_ip)))
    /\ tasks' = Append(tasks, Task("visitor", "object", visitor, client_ip, Len(ack) + 1))
    /\ UNCHANGED <<settings, world, now, db, last, nruns>>

\* the coroutine has passed its awaits; what it resolved waits for its save
Suspend(i, d, run) ==
    /\ tasks' = [tasks EXCEPT ![i].pc = "resolved", ![i].started = nruns, ![i].run = run]
    /\ db' = d
    /\ UNCHANGED <<settings, world, now, last, nruns, ack>>

\* the coroutine returns, or an exception ends it, before its save
Return(i, d, run) ==
    /\ Finish(d, run)
    /\ tasks' = [tasks EXCEPT ![i].pc = run.outcome, ![i].started = nruns, ![i].run = run]
    /\ UNCHANGED ack

\* lines 489-509: the scoring the run will save
rb2b_scoring(result) ==
    IF result.success
    THEN IF result.data.parse = "object" THEN rb2b_bonus(result.data.value) ELSE EmptyDict
    ELSE rb2b_default_scoring

\* lines 465-509: every way the awaits of process_rb2b_lead can turn out
Rb2bResolved(run, company_name, domain) ==
    {[run EXCEPT
        !.domain = domain, !.company = enriched.company,
        !.enrichment = enriched.result, !.contacts = contacts,
        !.engine = engine_outcome(result), !.raw = engine_data(result),
        !.scoring = rb2b_scoring(result),
        !.calls = Called(apollo_short_circuit(domain, settings.apollo_api_key), "apollo")
            \o Called(hunter_short_circuit(domain, settings.hunter_api_key), "hunter")
            \o Called(openai_short_circuit(settings.openai_api_key), "openai")] :
      enriched \in {company_stage(rb2b_shell(company_name, domain), domain,
                                   settings.apollo_api_key, r) : r \in world.apollo},
      contacts \in {found_contacts(domain, settings.hunter_api_key, r) : r \in world.hunter},
      result \in {score_lead_openai(settings.openai_api_key, r) : r \in world.openai}}

\* lines 415-428: the scoring the run will save
visitor_scoring(result) ==
    IF result.success
    THEN IF result.data.parse = "object" THEN result.data.value ELSE EmptyDict
    ELSE visitor_default_scoring

\* lines 399-428
VisitorEnriched(run, identified, domain, country) ==
    {[run EXCEPT
        !.identified = identified, !.domain = domain,
        !.company = enriched.company, !.enrichment = enriched.result,
        !.contacts = contacts,
        !.engine = engine_outcome(result), !.raw = engine_data(result),
        !.scoring = visitor_scoring(result),
        !.calls = Called(ipinfo_short_circuit(run.ip), "ipinfo")
            \o Called(apollo_short_circuit(domain, settings.apollo_api_key), "apollo")
            \o Called(hunter_short_circuit(domain, settings.hunter_api_key), "hunter")
            \o Called(~visitor_scoring_gate(settings.openai_api_key, identified), "openai")] :
      enriched \in {company_stage(visitor_shell(identified, domain, country), domain,
                                   settings.apollo_api_key, r) : r \in world.apollo},
      contacts \in {found_contacts(domain, settings.hunter_api_key, r) : r \in world.hunter},
      result \in IF visitor_scoring_gate(settings.openai_api_key, identified)
                 THEN {score_lead_openai(settings.openai_api_key, r) : r \in world.openai}
                 ELSE {Failure("not called")}}

\* lines 392-428: every way the awaits of process_visitor can turn out
VisitorResolved(run) ==
    UNION {VisitorEnriched([run EXCEPT !.org = ip_org(ip_result)],
                           ip_field(ip_result, "company_name"),
                           ip_field(ip_result, "domain"), ip_field(ip_result, "country")) :
             ip_result \in {lookup_company_from_ip(run.ip, settings.ipinfo_token, r) :
                               r \in world.ipinfo}}

\* scoring.get on a value that is no dict (lines 428, 504) ends the task
AfterAwaits(i, d, run) ==
    IF run.engine \in {"object", "failed"}
    THEN Suspend(i, d, run)
    ELSE Return(i, d, [run EXCEPT !.outcome = "crashed"])

\* process_visitor, lines 375-428
VisitorTaskStart(i, visitor, ip, run) ==
    IF is_local_ip(ip)
    THEN Return(i, save_visitor(db, visitor, ip), [run EXCEPT !.outcome = "skipped"])
    ELSE \E r \in VisitorResolved([run EXCEPT !.lead_id = visitor_lead_id(now, visitor)]) :
            AfterAwaits(i, save_visitor(db, visitor, ip), r)

\* process_rb2b_lead, lines 441-509
Rb2bTaskStart(i, rb2b_data, email, run) ==
    IF email_missing(email)
    THEN Return(i, db, [run EXCEPT !.outcome = "aborted"])
    ELSE \E r \in Rb2bResolved([run EXCEPT !.lead_id = rb2b_lead_id(now, email)],
                               rb2b_field(rb2b_data, "Company", "company"),
                               Str(email_domain(email))) :
            AfterAwaits(i, db, r)

\* the event loop starts a queued coroutine and runs it through its awaits
StartTask(i) ==
    /\ tasks[i].pc = "queued"
    /\ IF tasks[i].kind = "visitor"
       THEN VisitorTaskStart(i, tasks[i].event,
                             resolved_ip(tasks[i].event, tasks[i].client_ip),
                             [NoRun EXCEPT !.n = nruns + 1, !.kind = "visitor",
                                           !.event = tasks[i].event,
                                           !.client_ip = tasks[i].client_ip,
                                           !.ip = resolved_ip(tasks[i].event,
                                                              tasks[i].client_ip)])
       ELSE IF tasks[i].json = "object"
       THEN Rb2bTaskStart(i, tasks[i].event, rb2b_email(tasks[i].event),
                          [NoRun EXCEPT !.n = nruns + 1, !.kind = "rb2b",
                                        !.event = tasks[i].event,
                                        !.email = Str(rb2b_email(tasks[i].event))])
       \* line 446: rb2b_data.get on a body that is no dict
       ELSE Return(i, db, [NoRun EXCEPT !.n = nruns + 1, !.kind = "rb2b",
                                        !.outcome = "crashed"])

\* lines 430-437, 511-519: the save and the alert of a resumed coroutine
PersistTask(i) ==
    /\ tasks[i].pc = "resolved"
    /\ IF tasks[i].kind = "visitor"
       THEN VisitorSave(db, [tasks[i].run EXCEPT !.n = nruns + 1], tasks[i].event,
                        tasks[i].run.scoring)
       ELSE Rb2bSave([tasks[i].run EXCEPT !.n = nruns + 1], tasks[i].run.scoring,
                     tasks[i].event)
    /\ tasks' = [tasks EXCEPT ![i].pc = last'.outcome, ![i].run = last']
    /\ UNCHANGED ack

\* A deployment with company enrichment only.  Two deliveries of the sample
\* event, or a delivery and a visit from the same company, resolve the same
\* domain; the company resolver may answer each of them differently.
ServerEnvironments ==
    {e \in Environments : /\ e.apollo_api_key # "" /\ e.hunter_api_key = ""
                          /\ e.openai_api_key = "" /\ e.slack_webhook_url = ""}

ServerWorld ==
    [visits |-> HttpRequests,
     rb2b |-> {With(SampleEvent, "Email", JohnEmail), SampleEvent},
     ipinfo |-> {[kind |-> "http", status |-> 200, body |-> [x \in {"org"} |-> ShopifyOrg]]},
     apollo |-> {Exception} \cup {[kind |-> "http", status |-> 200,
                                   body |-> [x \in {"organization"} |-> o]] :
                                      o \in {OrgOne, OrgTwo}},
     hunter |-> {Exception},
     openai |-> {Exception}]

InitServer ==
    /\ settings \in ServerEnvironments
    /\ world = ServerWorld
    /\ Start

NextServer ==
    \/ Tick
    \/ \E body \in world.rb2b : \E json \in JsonKinds : Rb2bWebhook(body, json)
    \/ \E request \in world.visits :
          ReceiveVisitor(request.visitor,
                         Str(receive_client_ip(request.headers, request.client_host)))
    \/ \E i \in DOMAIN tasks : StartTask(i)
    \/ \E i \in DOMAIN tasks : PersistTask(i)

SpecServer == InitServer /\ [][NextServer]_vars

-----------------------------------------------------------------------------
(* The pipeline await by await.  A coroutine runs without interruption from *)
(* one await of a network request to the next; the task's pc names the      *)
(* request it is waiting for ("ipinfo", "apollo", "hunter", "openai",       *)
(* "slack").  A stage whose condition fails or whose resolver returns       *)
(* before its request issues none and the coroutine runs on; the save has   *)
(* no await and belongs to the step that ends the scoring stage.            *)

\* send_slack_alert (lines 609-626): one post; an exception is swallowed and
\* the response is not looked at
send_slack_alert(resp) == IF resp.kind = "exception" THEN "swallowed" ELSE "posted"

\* the coroutine issues a request and waits for the answer
StageAwait(i, d, run, stage) ==
    /\ tasks' = [tasks EXCEPT ![i].pc = stage,
                              ![i].started = IF @ = -1 THEN nruns ELSE @,
                              ![i].run = [run EXCEPT !.calls = @ \o <<stage>>]]
    /\ db' = d
    /\ UNCHANGED <<settings, world, now, last, nruns, ack>>

\* the coroutine returns, or an exception ends it
StageReturn(i, d, run, outcome) ==
    /\ Finish(d, [run EXCEPT !.n = nruns + 1, !.outcome = outcome])
    /\ tasks' = [tasks EXCEPT ![i].pc = outcome,
                              ![i].started = IF @ = -1 THEN nruns ELSE @,
                              ![i].run = last']
    /\ UNCHANGED ack

\* an alert posted before the save
StageAlertFirst(i, run, saved) ==
    IF should_alert(settings.slack_webhook_url, run.scoring)
    THEN StageAwait(i, db, [run EXCEPT !.company_id = saved.company_id], "slack")
    ELSE IF saved.ok
    THEN StageReturn(i, saved.db, [run EXCEPT !.company_id = saved.company_id], "done")
    ELSE StageReturn(i, saved.db, run, "crashed")

\* lines 431-437, 512-519: after the save, the alert of a hot lead
StageSaved(i, run, saved) ==
    IF saved.ok
    THEN IF should_alert(settings.slack_webhook_url, run.scoring)
         THEN StageAwait(i, saved.db, [run EXCEPT !.company_id = saved.company_id], "slack")
         ELSE StageReturn(i, saved.db, [run EXCEPT !.company_id = saved.company_id], "done")
    \* sqlite3.IntegrityError
    ELSE StageReturn(i, saved.db, run, "crashed")

\* lines 431, 512
StageSave(i, d, run, event) ==
    StageSaved(i, run,
        IF run.kind = "visitor"
        THEN save_lead(d, run.lead_id, run.company, run.contacts, event, run.scoring,
                       run.ip, run.identified, "tracking", EmptyDict)
        ELSE save_rb2b_lead(d, run.lead_id, run.company, run.contacts, run.scoring,
                            person_data(event), event))

\* lines 415-428, 489-509: the scoring stage ends with the engine's result, or
\* with none when the engine was not asked
StageScored(i, d, run, event, result) ==
    IF result.success /\ result.data.parse # "object"
    \* lines 428, 504: scoring.get on a value that is no dict
    THEN StageReturn(i, d, [run EXCEPT !.engine = engine_outcome(result)], "crashed")
    ELSE StageSave(i, d,
                   [run EXCEPT !.engine = engine_outcome(result),
                               !.raw = engine_data(result),
                               !.scoring = IF run.kind = "visitor"
                                           THEN visitor_scoring(result)
                                           ELSE rb2b_scoring(result)],
                   event)

\* lines 422, 498: is the scoring engine asked
scoring_gate(kind, api_key, identified) ==
    IF kind = "visitor" THEN visitor_scoring_gate(api_key, identified) ELSE Truthy(api_key)

ToOpenai(i, d, run, event) ==
    IF scoring_gate(run.kind, settings.openai_api_key, run.identified)
    THEN StageAwait(i, d,
                    [run EXCEPT !.asked =
                        IF run.kind = "visitor"
                        THEN scoring_request(run.company, run.contacts,
                                             visitor_visit_data(event), EmptyDict)
                        ELSE scoring_request(run.company, run.contacts, rb2b_visit_data,
                                             person_data(event))],
                    "openai")
    ELSE StageScored(i, d, run, event, Failure("not called"))

\* lines 408, 474
ToHunter(i, d, run, event) ==
    IF hunter_short_circuit(run.domain, settings.hunter_api_key)
    THEN ToOpenai(i, d, run, event)
    ELSE StageAwait(i, d, run, "hunter")

\* lines 401, 467
ToApollo(i, d, run, event) ==
    IF apollo_short_circuit(run.domain, settings.apollo_api_key)
    THEN ToHunter(i, d, run, event)
    ELSE StageAwait(i, d, run, "apollo")

\* lines 393-400: what the run takes from the IP resolver's result
AfterIpinfo(i, d, run, event, ip_result) ==
    ToApollo(i, d,
             [run EXCEPT !.org = ip_org(ip_result),
                         !.identified = ip_field(ip_result, "company_name"),
                         !.domain = ip_field(ip_result, "domain"),
                         !.company = visitor_shell(ip_field(ip_result, "company_name"),
                                                   ip_field(ip_result, "domain"),
                                                   ip_field(ip_result, "country"))],
             event)

\* process_visitor, lines 375-392
VisitorBegin(i, visitor, ip, run) ==
    IF is_local_ip(ip)
    THEN StageReturn(i, save_visitor(db, visitor, ip), run, "skipped")
    ELSE IF ipinfo_short_circuit(ip)
    THEN AfterIpinfo(i, save_visitor(db, visitor, ip),
                     [run EXCEPT !.lead_id = visitor_lead_id(now, visitor)], visitor,
                     lookup_company_from_ip(ip, settings.ipinfo_token, Exception))
    ELSE StageAwait(i, save_visitor(db, visitor, ip),
                    [run EXCEPT !.lead_id = visitor_lead_id(now, visitor)], "ipinfo")

\* process_rb2b_lead, lines 441-467
Rb2bBegin(i, rb2b_data, email, run) ==
    IF email_missing(email)
    THEN StageReturn(i, db, run, "aborted")
    ELSE ToApollo(i, db,
                  [run EXCEPT !.lead_id = rb2b_lead_id(now, email),
                              !.domain = Str(email_domain(email)),
                              !.company = rb2b_shell(rb2b_field(rb2b_data, "Company", "company"),
                                                     Str(email_domain(email)))],
                  rb2b_data)

\* the event loop starts a queued coroutine
BeginTask(i) ==
    /\ tasks[i].pc = "queued"
    /\ IF tasks[i].kind = "visitor"
       THEN VisitorBegin(i, tasks[i].event,
                         resolved_ip(tasks[i].event, tasks[i].client_ip),
                         [NoRun EXCEPT !.kind = "visitor", !.event = tasks[i].event,
                                       !.client_ip = tasks[i].client_ip,
                                       !.ip = resolved_ip(tasks[i].event, tasks[i].client_ip)])
       ELSE IF tasks[i].json = "object"
       THEN Rb2bBegin(i, tasks[i].event, rb2b_email(tasks[i].event),
                      [NoRun EXCEPT !.kind = "rb2b", !.event = tasks[i].event,
                                    !.email = Str(rb2b_email(tasks[i].event))])
       \* line 446: rb2b_data.get on a body that is no dict
       ELSE StageReturn(i, db, [NoRun EXCEPT !.kind = "rb2b"], "crashed")

\* line 393: the IP resolver's answer arrives
AnswerIpinfo(i) ==
    /\ tasks[i].pc = "ipinfo"
    /\ \E ip_result \in {lookup_company_from_ip(tasks[i].run.ip, settings.ipinfo_token, r) :
                            r \in world.ipinfo} :
          AfterIpinfo(i, db, tasks[i].run, tasks[i].event, ip_result)

\* lines 402-404, 468-470: the company resolver's answer arrives
AnswerApollo(i) ==
    /\ tasks[i].pc = "apollo"
    /\ \E enriched \in {company_stage(tasks[i].run.company, tasks[i].run.domain,
                                       settings.apollo_api_key, r) : r \in world.apollo} :
          ToHunter(i, db, [tasks[i].run EXCEPT !.company = enriched.company,
                                               !.enrichment = enriched.result],
                   tasks[i].event)

\* lines 409-412, 475-478: the contact resolver's answer arrives
AnswerHunter(i) ==
    /\ tasks[i].pc = "hunter"
    /\ \E contacts \in {found_contacts(tasks[i].run.domain, settings.hunter_api_key, r) :
                           r \in world.hunter} :
          ToOpenai(i, db, [tasks[i].run EXCEPT !.contacts = contacts], tasks[i].event)

\* lines 425-431, 500-512: the scoring engine's answer arrives; the save follows
AnswerOpenai(i) ==
    /\ tasks[i].pc = "openai"
    /\ \E result \in {score_lead_openai(settings.openai_api_key, r) : r \in world.openai} :
          StageScored(i, db, tasks[i].run, tasks[i].event, result)

\* a notifier without its try/except: the exception of the post ends the task
AnswerSlackUncaught(i) ==
    /\ tasks[i].pc = "slack"
    /\ \E alert \in {send_slack_alert(r) : r \in world.slack} :
          StageReturn(i, db, [tasks[i].run EXCEPT !.alert = alert],
                      IF alert = "swallowed" THEN "crashed" ELSE "done")

\* lines 435-437, 516-519: the post returns or raises; the coroutine returns
AnswerSlack(i) ==
    /\ tasks[i].pc = "slack"
    /\ \E alert \in {send_slack_alert(r) : r \in world.slack} :
          StageReturn(i, db, [tasks[i].run EXCEPT !.alert = alert], "done")

\* A visit from a public and one from a local address, an event whose e-mail
\* has a domain and one whose e-mail has none.  The IP resolver fails or
\* names a company; the company and contact resolvers answer; the scoring
\* engine fails, returns a hot lead, or returns JSON that is no object; the
\* notifier's post raises, or returns 200 or 500.
StagesWorld ==
    [visits |-> {HttpRequest(ForwardedFor, <<"1","0",".","0",".","0",".","1">>),
                 HttpRequest(EmptyDict, <<"1","2","7",".","0",".","0",".","1">>)},
     rb2b |-> {With(SampleEvent, "Email", JohnEmail), With(SampleEvent, "Email", NoAtEmail)},
     ipinfo |-> {Exception, [kind |-> "http", status |-> 200,
                             body |-> [x \in {"org"} |-> ShopifyOrg]]},
     apollo |-> {[kind |-> "http", status |-> 200,
                  body |-> [x \in {"organization"} |-> OrgOne]]},
     hunter |-> {[kind |-> "http", status |-> 200, emails |-> <<HunterOne, HunterTwo>>]},
     openai |-> {Exception} \cup
                {[kind |-> "http", status |-> 200, content |-> c] :
                    c \in {[parse |-> "array"],
                           [parse |-> "object", value |-> ScoringObject(90, "hot")]}},
     slack |-> {Exception, Http(200), Http(500)}]

\* every credential configured, or none
StagesEnvironments ==
    {e \in Environments :
        \A k \in {"hunter_api_key", "openai_api_key", "slack_webhook_url"} :
            (e[k] = "") = (e.apollo_api_key = "")}

InitStages ==
    /\ settings \in StagesEnvironments
    /\ world = StagesWorld
    /\ Start

NextStages ==
    \/ \E body \in world.rb2b : Rb2bWebhook(body, "object")
    \/ \E request \in world.visits :
          ReceiveVisitor(request.visitor,
                         Str(receive_client_ip(request.headers, request.client_host)))
    \/ \E i \in DOMAIN tasks : BeginTask(i)
    \/ \E i \in DOMAIN tasks : AnswerIpinfo(i)
    \/ \E i \in DOMAIN tasks : AnswerApollo(i)
    \/ \E i \in DOMAIN tasks : AnswerHunter(i)
    \/ \E i \in DOMAIN tasks : AnswerOpenai(i)
    \/ \E i \in DOMAIN tasks : AnswerSlack(i)

SpecStages == InitStages /\ [][NextStages]_vars

-----------------------------------------------------------------------------
(* Vocabulary of the properties *)

\* a step that is one pipeline run
RunStep == nruns' = nruns + 1

LocalIps == {"", "127.0.0.1", "::1", "localhost"}

\* the event's ip_address if set, otherwise the request's client IP
ResolvedIpOf(run) ==
    IF run.event.ip_address \notin {NULL, ""} THEN run.event.ip_address ELSE run.client_ip

\* the value an event carries under a key; empty when the key is absent
EventEmail(run, k) == IF k \in DOMAIN run.event THEN run.event[k] ELSE <<>>

HasLead(d, lead_id) == \E l \in d.leads : l.lead_id = lead_id

LeadOf(d, lead_id) == CHOOSE l \in d.leads : l.lead_id = lead_id

Alerts(run) == Cardinality({i \in DOMAIN run.calls : run.calls[i] = "slack"})

HasDomain(company) == "domain" \in DOMAIN company /\ company["domain"] \notin {NULL, ""}

Min(a, b) == IF a < b THEN a ELSE b

-----------------------------------------------------------------------------
(* C1 - local traffic *)

\* C1: a process_visitor run whose resolved IP (the event's ip_address if set,
\* otherwise the client IP) is empty, "127.0.0.1", "::1" or "localhost"
\* creates no Lead, no Company and no Contact, and issues no request to a
\* resolver, to the scoring engine or to the alert webhook.
C1_LocalVisitCreatesNothing ==
    [][(RunStep /\ last'.kind = "visitor" /\ ResolvedIpOf(last') \in LocalIps)
          => /\ db'.leads = db.leads
             /\ db'.companies = db.companies
             /\ db'.contacts = db.contacts
             /\ last'.calls = <<>>]_vars

\* a local visit ("localhost", taken from the event) that follows a run which
\* persisted a Lead and a Company
C1_Witness ==
    /\ last.kind = "visitor"
    /\ last.event.ip_address = "localhost"
    /\ last.outcome = "skipped"
    /\ db.leads # {}
    /\ db.companies # {}

-----------------------------------------------------------------------------
(* C2 - the e-mail precondition *)

\* C2: a process_rb2b_lead run whose event has no e-mail, or an empty one,
\* under both the "Email" and the "email" key aborts with no side effect: the
\* whole store (visitors, companies, contacts, leads) is unchanged and no
\* request is issued to a resolver, the scoring engine or the alert webhook.
C2_NoEmailNoEffect ==
    [][(RunStep /\ last'.kind = "rb2b"
            /\ EventEmail(last', "Email") = <<>> /\ EventEmail(last', "email") = <<>>)
          => /\ db' = db
             /\ last'.calls = <<>>
             /\ last'.outcome = "aborted"]_vars

\* an event with both keys present and empty, after a run that persisted a
\* Lead and a Company
C2_Witness ==
    /\ last.kind = "rb2b"
    /\ {"Email", "email"} \subseteq DOMAIN last.event
    /\ last.event["Email"] = <<>> /\ last.event["email"] = <<>>
    /\ last.outcome = "aborted"
    /\ db.leads # {}
    /\ db.companies # {}

-----------------------------------------------------------------------------
(* C3 - company upsert *)

AtMostOneCompanyPerDomain ==
    \A r1, r2 \in db.companies : r1.domain = r2.domain => r1 = r2

CompanyFields ==
    {"name", "industry", "employee_count", "country", "city", "description",
     "funding_stage", "total_funding", "annual_revenue", "linkedin_url"}

\* a run persists a company whose domain the store already holds under a
\* different payload
SecondUpsert ==
    /\ RunStep
    /\ last'.outcome = "done"
    /\ HasDomain(last'.company)
    /\ \E r \in db.companies :
          r.domain = last'.company["domain"] /\ r.enriched_data # last'.company

\* the single row of the run's domain carries the run's payload in the fields given
LatestPayloadIn(fields) ==
    \E r \in db'.companies :
        /\ r.domain = last'.company["domain"]
        /\ \A r2 \in db'.companies : r2.domain = r.domain => r2 = r
        /\ \A k \in fields \cap DOMAIN last'.company : r[k] = last'.company[k]

\* C3: company upsert is keyed by domain: after a second run persisted a
\* domain under a different payload, the store holds one row for that domain
\* and the row carries the later payload's value in every Company field (name,
\* industry, employee count, country, city, description, funding stage, total
\* funding, annual revenue, professional-network URL).
C3_UpsertLatestPayload == [][SecondUpsert => LatestPayloadIn(CompanyFields)]_vars

\* what the store does keep: one row per domain, and the later payload in
\* every column the INSERT names (all but annual_revenue)
C3_UpsertLatestStoredColumns ==
    /\ []AtMostOneCompanyPerDomain
    /\ [][SecondUpsert => LatestPayloadIn(CompanyFields \ {"annual_revenue"})]_vars

-----------------------------------------------------------------------------
(* C4 - contacts *)

\* the rows of db' that hold contact c for a company of the domain
ContactRows(c, domain) ==
    {r \in db'.contacts :
        /\ r.name = c.name /\ r.email = c.email
        /\ \E co \in db.companies \cup db'.companies :
              co.id = r.company_id /\ co.domain = domain}

\* a run persists, for its company's domain, a contact the store already
\* holds for that domain
SecondContact(c) ==
    /\ RunStep
    /\ last'.outcome = "done"
    /\ HasDomain(last'.company)
    /\ \E r \in db.contacts :
          /\ r.name = c.name /\ r.email = c.email
          /\ \E co \in db.companies :
                co.id = r.company_id /\ co.domain = last'.company["domain"]

\* C4: when a second run persists the same contact (same name and email) for
\* the same company domain, the store holds exactly one Contact row for that
\* contact afterwards.
C4_ContactInsertIfAbsent ==
    [][\A i \in DOMAIN last'.contacts :
          SecondContact(last'.contacts[i])
              => Cardinality(ContactRows(last'.contacts[i], last'.company["domain"])) = 1]_vars

-----------------------------------------------------------------------------
(* C5 - the score bonus *)

\* the last run is an identified-person run that returned normally with a
\* scoring object of the engine
EngineScoredRb2b == last.kind = "rb2b" /\ last.outcome = "done" /\ last.engine = "object"

\* C5: when the scoring engine succeeds with raw score s on the
\* identified-person pathway, the persisted score is min(100, s + 15); the
\* persisted tier is "hot" when that score is >= 70, "warm" when it is in
\* 50..69, and otherwise the tier the engine returned; raw 60 persists as
\* 75/"hot" and raw 90 as 100/"hot".
C5_ScoreBonus ==
    (EngineScoredRb2b /\ "icp_score" \in DOMAIN last.raw) =>
        /\ HasLead(db, last.lead_id)
        /\ LeadOf(db, last.lead_id).icp_score = Min(100, last.raw["icp_score"] + 15)
        /\ LeadOf(db, last.lead_id).icp_score >= 70 => LeadOf(db, last.lead_id).tier = "hot"
        /\ LeadOf(db, last.lead_id).icp_score \in 50..69 => LeadOf(db, last.lead_id).tier = "warm"
        /\ (LeadOf(db, last.lead_id).icp_score < 50 /\ "tier" \in DOMAIN last.raw)
              => LeadOf(db, last.lead_id).tier = last.raw["tier"]
        /\ last.raw["icp_score"] = 60
              => LeadOf(db, last.lead_id).icp_score = 75 /\ LeadOf(db, last.lead_id).tier = "hot"
        /\ last.raw["icp_score"] = 90
              => LeadOf(db, last.lead_id).icp_score = 100 /\ LeadOf(db, last.lead_id).tier = "hot"

\* the engine returned 90/"cold"; the Lead holds 100/"hot"
C5_Witness ==
    /\ EngineScoredRb2b
    /\ last.raw = ScoringObject(90, "cold")
    /\ LeadOf(db, last.lead_id).icp_score = 100
    /\ LeadOf(db, last.lead_id).tier = "hot"

-----------------------------------------------------------------------------
(* C6 - the default scoring *)

\* no scoring credential, or the engine was called and reported failure
NoEngineResult ==
    \/ ~Truthy(settings.openai_api_key)
    \/ \E i \in DOMAIN last.calls : last.calls[i] = "openai" /\ last.engine = "failed"

HasScoring(lead, score, tier, action, urgency) ==
    /\ lead.icp_score = score
    /\ lead.tier = tier
    /\ lead.recommended_action = action
    /\ lead.urgency = urgency

\* C6: with no scoring credential, or when the scoring engine reports
\* failure, a run that passed its precondition and returned persists its
\* pathway's default: 30/"cold"/"skip"/"low" on the anonymous pathway,
\* 60/"warm"/"send_email"/"medium" (no bonus) on the identified-person one.
C6_DefaultFallback ==
    (last.outcome = "done" /\ NoEngineResult) =>
        /\ HasLead(db, last.lead_id)
        /\ last.kind = "visitor"
              => HasScoring(LeadOf(db, last.lead_id), 30, "cold", "skip", "low")
        /\ last.kind = "rb2b"
              => HasScoring(LeadOf(db, last.lead_id), 60, "warm", "send_email", "medium")

\* an identified-person run whose engine was called and failed, after an
\* anonymous run that persisted the anonymous default
C6_Witness ==
    /\ last.kind = "rb2b" /\ last.outcome = "done"
    /\ Truthy(settings.openai_api_key)
    /\ last.calls = <<"openai">> /\ last.engine = "failed"
    /\ HasScoring(LeadOf(db, last.lead_id), 60, "warm", "send_email", "medium")
    /\ \E l \in db.leads : l.source = "tracking" /\ HasScoring(l, 30, "cold", "skip", "low")

-----------------------------------------------------------------------------
(* C7 - the notifier *)

\* C7: a run that persisted its Lead issues exactly one alert request when a
\* webhook is configured and the Lead's tier is "hot", and none otherwise; a
\* run that persisted no Lead issues none.
C7_NotifierFiring ==
    /\ last.outcome = "done"
          => Alerts(last) = IF /\ Truthy(settings.slack_webhook_url)
                               /\ LeadOf(db, last.lead_id).tier = "hot"
                            THEN 1 ELSE 0
    /\ last.outcome # "done" => Alerts(last) = 0

\* the engine said "cold", the bonus made the Lead "hot", one alert went out
C7_Witness ==
    /\ EngineScoredRb2b
    /\ last.raw = ScoringObject(55, "cold")
    /\ LeadOf(db, last.lead_id).tier = "hot"
    /\ Alerts(last) = 1

-----------------------------------------------------------------------------
(* C8 - tier and score *)

\* C8: every Lead persisted with source "rb2b" has tier "hot" when its score
\* is >= 70 and tier "warm" when its score is in 50..69.
C8_TierScoreConsistency ==
    \A l \in db.leads :
        l.source = "rb2b" =>
            /\ l.icp_score >= 70 => l.tier = "hot"
            /\ l.icp_score \in 50..69 => l.tier = "warm"

\* the engine returned 35/"hot"; the Lead holds 50/"warm"
C8_Witness ==
    /\ EngineScoredRb2b
    /\ last.raw = ScoringObject(35, "hot")
    /\ LeadOf(db, last.lead_id).icp_score = 50
    /\ LeadOf(db, last.lead_id).tier = "warm"

-----------------------------------------------------------------------------
(* C9 - referential integrity *)

\* C9: every Contact row references exactly one existing Company row, and
\* every Lead whose company link is set references an existing Company row.
C9_ReferentialIntegrity ==
    /\ \A c \in db.contacts :
          Cardinality({co \in db.companies : co.id = c.company_id}) = 1
    /\ \A l \in db.leads :
          l.company_id # NoId => \E co \in db.companies : co.id = l.company_id

-----------------------------------------------------------------------------
(* C10 - orphan leads *)

\* C10: a run that persists its Lead links it to a Company if and only if the
\* run's final company record has a non-empty domain, and then to the row of
\* that domain; with an empty domain the run writes no Company row and no
\* Contact row and the Lead is persisted without a link.  A run that passed
\* its precondition persists its Lead unless the lead_id is already taken, in
\* which case it writes no Company, Contact or Lead row.
C10_OrphanRule ==
    [][RunStep =>
        /\ last'.outcome = "done" =>
              /\ ~HasLead(db, last'.lead_id) /\ HasLead(db', last'.lead_id)
              /\ LeadOf(db', last'.lead_id).company_id # NoId <=> HasDomain(last'.company)
              /\ HasDomain(last'.company) =>
                    \E co \in db'.companies :
                        /\ co.id = LeadOf(db', last'.lead_id).company_id
                        /\ co.domain = last'.company["domain"]
              /\ ~HasDomain(last'.company) =>
                    db'.companies = db.companies /\ db'.contacts = db.contacts
        /\ last'.outcome \notin {"done", "skipped", "aborted"} =>
              /\ HasLead(db, last'.lead_id)
              /\ db'.companies = db.companies
              /\ db'.contacts = db.contacts
              /\ db'.leads = db.leads]_vars

\* the e-mail gave a domain and the contact resolver gave contacts, but the
\* company resolver's record has an empty domain; the Lead is an orphan and
\* the store holds no Company and no Contact
C10_Witness ==
    /\ last.outcome = "done"
    /\ Truthy(last.domain)
    /\ ~HasDomain(last.company)
    /\ last.contacts # <<>>
    /\ LeadOf(db, last.lead_id).company_id = NoId
    /\ db.companies = {} /\ db.contacts = {}

-----------------------------------------------------------------------------
(* C11 - enrichment failures *)

\* the run was given a non-local IP (anonymous pathway) or a non-empty e-mail
\* (identified-person pathway)
PassesPrecondition(run) ==
    \/ run.kind = "visitor" /\ ResolvedIpOf(run) \notin LocalIps
    \/ run.kind = "rb2b"
          /\ (EventEmail(run, "Email") # <<>> \/ EventEmail(run, "email") # <<>>)

\* C11: whatever the IP resolver, the domain resolver, the contact resolver
\* and the scoring engine answer (success, non-2xx, exception, malformed
\* response) and whichever credentials are missing, a run that passes its
\* precondition reaches the persistence step and persists exactly one Lead.
C11_NoEnrichmentFailureIsFatal ==
    [][(RunStep /\ PassesPrecondition(last'))
          => /\ last'.outcome = "done"
             /\ Cardinality(db'.leads) = Cardinality(db.leads) + 1
             /\ HasLead(db', last'.lead_id)]_vars

\* what does hold: a run past its precondition persists exactly one Lead
\* unless the engine's completion is JSON that is no object or the lead_id is
\* already stored
C11_FatalOnlyByEngineShapeOrCollision ==
    [][(RunStep /\ PassesPrecondition(last')
            /\ last'.engine # "array" /\ ~HasLead(db, last'.lead_id))
          => /\ last'.outcome = "done"
             /\ Cardinality(db'.leads) = Cardinality(db.leads) + 1
             /\ HasLead(db', last'.lead_id)]_vars

-----------------------------------------------------------------------------
(* C12 - the visit audit trail *)

-----------------------------------------------------------------------------
(* C13 - leads are created once *)

\* C13: a run that persists inserts one new Lead, under its own lead_id, and
\* every Lead persisted before is still in the store with every field
\* unchanged, also when it is of the same company, session or person; a run
\* that does not persist leaves the Leads alone.
C13_LeadCreatedOnce ==
    [][RunStep =>
        /\ db.leads \subseteq db'.leads
        /\ last'.outcome = "done" =>
              \E l \in db'.leads \ db.leads :
                  /\ db'.leads = db.leads \cup {l}
                  /\ l.lead_id = last'.lead_id
        /\ last'.outcome # "done" => db'.leads = db.leads]_vars

\* the same person came twice: two Leads of one e-mail, the second scored
\* without touching the first
C13_Witness ==
    /\ last.kind = "rb2b" /\ last.outcome = "done"
    /\ \E l1, l2 \in db.leads :
          /\ l1.id = 1 /\ l2.id = 2
          /\ l1.person_email = l2.person_email
          /\ l1.lead_id # l2.lead_id
          /\ l2.lead_id = last.lead_id

-----------------------------------------------------------------------------
(* C14 - acknowledge, then process *)

\* a webhook handler answers a request whose body it could read
HandlerStep == Len(ack') = Len(ack) + 1 /\ ack'[Len(ack')].json # "invalid"

\* the task the step queued
Queued == tasks'[Len(tasks')]

\* C14: for every inbound event on either webhook the handler queues exactly
\* one background run and returns its acknowledgment before any stage of that
\* run has started (the task is queued with nothing resolved, nothing is
\* written to the store); the acknowledgment is a function of the request
\* alone, and no later step of any task - success, degraded enrichment,
\* aborted precondition, failed save - changes an acknowledgment given.
C14_AcknowledgeThenProcess ==
    [][/\ HandlerStep =>
            /\ Len(tasks') = Len(tasks) + 1
            /\ tasks' = Append(tasks, Queued)
            /\ Queued.pc = "queued" /\ Queued.run = NoRun
            /\ Queued.request = Len(ack')
            /\ db' = db /\ last' = last /\ nruns' = nruns
            /\ ack'[Len(ack')].response = Acknowledgment(Queued.kind, Queued.client_ip)
       /\ SubSeq(ack', 1, Len(ack)) = ack
       /\ Len(ack') = Len(ack) => ack' = ack /\ Len(tasks') = Len(tasks)
       /\ \A i \in DOMAIN tasks' :
             ack'[tasks'[i].request].response
                = Acknowledgment(tasks'[i].kind, tasks'[i].client_ip)]_vars

\* the four fates of a background run, each behind the same acknowledgment:
\* two deliveries of one event, one saved and one failed in its save
C14_Witness ==
    \E i, j \in DOMAIN tasks :
        /\ tasks[i].pc = "done" /\ tasks[j].pc = "crashed"
        /\ tasks[j].run.lead_id = tasks[i].run.lead_id
        /\ ack[tasks[i].request].response = ack[tasks[j].request].response
        /\ ack[tasks[i].request].response.status = "received"

-----------------------------------------------------------------------------
(* C15 - the identified-person scenario *)

\* the event of john.smith@shopify.com, VP of Marketing, processed with no
\* scoring credential
JohnScenario(run) ==
    /\ run.kind = "rb2b"
    /\ run.event = With(SampleEvent, "Email", JohnEmail)
    /\ run.event["Title"] = "VP of Marketing"
    /\ ~Truthy(settings.openai_api_key)

JohnLead(l) ==
    /\ l.source = "rb2b"
    /\ l.icp_score = 60
    /\ l.tier = "warm"
    /\ l.person_email = "john.smith@shopify.com"
    /\ l.person_title = "VP of Marketing"

LinkedToDomain(d, l, domain) ==
    \E co \in d.companies : co.id = l.company_id /\ co.domain = domain

\* C15: the event of john.smith@shopify.com, VP of Marketing, processed with
\* no scoring credential, persists one Lead with source "rb2b", score 60 and
\* tier "warm", linked to a Company whose domain is "shopify.com", and sends
\* no alert.
C15_EndToEndScenario ==
    [][(RunStep /\ JohnScenario(last'))
          => /\ last'.outcome = "done"
             /\ Alerts(last') = 0
             /\ \E l \in db'.leads \ db.leads :
                   /\ db'.leads = db.leads \cup {l}
                   /\ JohnLead(l)
                   /\ LinkedToDomain(db', l, "shopify.com")]_vars

\* C15, as the code has it: the run sends no alert and, when it returns, has
\* persisted one Lead with source "rb2b", score 60 and tier "warm"; the Lead
\* is linked to a Company of domain "shopify.com" when the run's final company
\* record still has that domain, which is the case whenever the company
\* resolver is not called; a resolver record with another primary_domain
\* links the Lead to that domain and one with an empty primary_domain leaves
\* it unlinked.  A run that does not return found its lead_id already stored
\* and wrote nothing.
C15_EndToEndScenarioAsCoded ==
    [][(RunStep /\ JohnScenario(last'))
          => /\ Alerts(last') = 0
             /\ \A i \in DOMAIN last'.calls : last'.calls[i] # "openai"
             /\ (\A i \in DOMAIN last'.calls : last'.calls[i] # "apollo")
                   => last'.company["domain"] = "shopify.com"
             /\ last'.outcome = "done" =>
                   \E l \in db'.leads \ db.leads :
                       /\ db'.leads = db.leads \cup {l}
                       /\ JohnLead(l)
                       /\ HasDomain(last'.company)
                             => LinkedToDomain(db', l, last'.company["domain"])
                       /\ ~HasDomain(last'.company) => l.company_id = NoId
             /\ last'.outcome # "done" => HasLead(db, last'.lead_id) /\ db' = db]_vars

\* the scenario with the company resolver, the contact resolver and the
\* webhook configured: the Lead of John, linked to the enriched Company of
\* shopify.com, and no alert
C15_Witness ==
    /\ JohnScenario(last) /\ last.outcome = "done"
    /\ Truthy(settings.apollo_api_key) /\ Truthy(settings.slack_webhook_url)
    /\ last.calls = <<"apollo", "hunter">>
    /\ \E l \in db.leads :
          /\ db.leads = {l}
          /\ JohnLead(l)
          /\ LinkedToDomain(db, l, "shopify.com")
    /\ \E co \in db.companies : db.companies = {co} /\ co.industry = "E-commerce"
    /\ Alerts(last) = 0

-----------------------------------------------------------------------------
(* C16 - the domain guess *)

EndsWith(cs, suffix) ==
    Len(suffix) <= Len(cs) /\ SubSeq(cs, Len(cs) - Len(suffix) + 1, Len(cs)) = suffix

\* a name without its legal suffix: the longest of the suffixes it ends with
WithoutLegalSuffix(cs) ==
    IF \E i \in DOMAIN LegalSuffixes : EndsWith(cs, LegalSuffixes[i])
    THEN Take(cs, Len(cs) - MaxOf({Len(LegalSuffixes[i]) :
                                      i \in {j \in DOMAIN LegalSuffixes :
                                                EndsWith(cs, LegalSuffixes[j])}}))
    ELSE cs

\* the org string with its leading token stripped
OrgName(org) ==
    IF Positions(org, " ") = {} THEN org ELSE Drop(org, MinOf(Positions(org, " ")))

\* the name lower-cased (blanks, commas and periods dropped), its legal suffix
\* stripped, truncated to 20 characters, followed by ".com"
SuffixStrippedDomain(name) ==
    Take(WithoutLegalSuffix(Remove(Remove(Remove(Lower(name), <<" ">>), <<",">>), <<".">>)), 20)
        \o <<".","c","o","m">>

\* C16: for the org string the IP resolver was given, the organization name
\* is the org string with its leading AS-number token stripped, and the
\* guessed domain is that name lower-cased, with its legal suffix stripped,
\* truncated to 20 characters and suffixed with ".com"; "14061 Shopify Inc"
\* yields "Shopify Inc" and "shopify.com".
C16_DomainGuess ==
    (last.kind = "visitor" /\ last.org # <<>>) =>
        /\ last.identified = Str(OrgName(last.org))
        /\ last.domain = Str(SuffixStrippedDomain(OrgName(last.org)))
        /\ last.org = ShopifyOrg
              => last.identified = "Shopify Inc" /\ last.domain = "shopify.com"

\* what does hold: the name, and the example
C16_NameAndExample ==
    (last.kind = "visitor" /\ last.org # <<>>) =>
        /\ last.identified = Str(OrgName(last.org))
        /\ last.org = ShopifyOrg
              => last.identified = "Shopify Inc" /\ last.domain = "shopify.com"

-----------------------------------------------------------------------------
(* C17 - the range of score and tier *)

\* C17: every persisted Lead, of either pathway and for any response of the
\* scoring engine, has an ICP score in 0..100 and a tier among "hot", "warm"
\* and "cold".
C17_ScoreAndTierInRange ==
    \A l \in db.leads :
        /\ l.icp_score \in 0..100
        /\ l.tier \in {"hot", "warm", "cold"}

-----------------------------------------------------------------------------
(* C18 - the three writes of a save *)

\* the run's Lead insert failed after its Company upsert was executed
LeadInsertFailed ==
    /\ RunStep
    /\ last'.outcome = "crashed"
    /\ HasLead(db, last'.lead_id)
    /\ HasDomain(last'.company)

\* the Company row and the Contact rows the run's statements wrote
WritesOfRunRemain ==
    /\ \E co \in db'.companies :
          /\ co.id = db.seq.companies + 1
          /\ co.domain = last'.company["domain"]
          /\ co.enriched_data = last'.company
    /\ \A i \in DOMAIN last'.contacts :
          \E c \in db'.contacts :
              /\ c.id = db.seq.contacts + i
              /\ c.company_id = db.seq.companies + 1
              /\ c.email = last'.contacts[i].email

\* C18: the three writes of a run are not atomic: when the Lead insert of a
\* run fails after the run's Company upsert and Contact inserts were executed,
\* the Company and Contact writes of that run remain in the store.
C18_WritesNotRolledBack == [][LeadInsertFailed => WritesOfRunRemain]_vars

\* C18, as the code has it: the three writes are one transaction: when the
\* Lead insert of a run fails after the run's Company upsert and Contact
\* inserts were executed, none of them is committed; companies, contacts,
\* leads and their id sequences are as before the run.
C18_SaveIsAtomic ==
    [][LeadInsertFailed
          => /\ ~WritesOfRunRemain
             /\ db'.companies = db.companies
             /\ db'.contacts = db.contacts
             /\ db'.leads = db.leads
             /\ db'.seq.companies = db.seq.companies
             /\ db'.seq.contacts = db.seq.contacts
             /\ db'.seq.leads = db.seq.leads]_vars

\* a run with another company payload and with contacts failed on its Lead:
\* the store still holds the earlier payload, under the earlier id, and no
\* Contact
C18_Witness ==
    /\ last.outcome = "crashed"
    /\ HasLead(db, last.lead_id)
    /\ HasDomain(last.company)
    /\ last.contacts # <<>>
    /\ db.contacts = {}
    /\ \E co \in db.companies :
          /\ db.companies = {co}
          /\ co.id = 1
          /\ co.domain = last.company["domain"]
          /\ co.enriched_data # last.company

-----------------------------------------------------------------------------
(* C19 - lead identifiers *)

\* the run generated the lead_id of a Lead that is already stored (same
\* pathway, same second, same first 8 characters of the session id or of the
\* e-mail's local part)
LeadIdCollides == RunStep /\ last'.lead_id # "" /\ HasLead(db, last'.lead_id)

\* C19: the storage layer does not guard against colliding lead identifiers:
\* when a run generates the lead_id of a Lead an earlier run persisted, the
\* run completes and persists its Lead too, so the store holds both.
C19_CollidingRunsBothPersist ==
    [][LeadIdCollides
          => /\ last'.outcome = "done"
             /\ Cardinality({l \in db'.leads : l.lead_id = last'.lead_id}) = 2]_vars

\* what the code does: the second run fails in its save and the store keeps
\* the one Lead of the first
C19_SecondRunFails ==
    [][LeadIdCollides
          => /\ last'.outcome = "crashed"
             /\ db'.leads = db.leads
             /\ Cardinality({l \in db'.leads : l.lead_id = last'.lead_id}) = 1]_vars

-----------------------------------------------------------------------------
(* C20 - two concurrent runs on one domain *)

\* the task went from its awaits into its save
ReachedSave(t) ==
    /\ t.pc \in {"done", "crashed"}
    /\ t.json = "object"
    /\ t.run.lead_id # ""
    /\ t.run.engine \in {"object", "failed"}

\* task j executes its persistence step; task i, which ran concurrently with
\* it (j had started before i finished) and resolved the same domain, has
\* executed its own
LastOfTwoPersists(i, j) ==
    /\ i # j
    /\ tasks[j].pc = "resolved" /\ tasks'[j].pc # "resolved"
    /\ ReachedSave(tasks[i])
    /\ tasks[j].started < tasks[i].run.n
    /\ HasDomain(tasks[i].run.company) /\ HasDomain(tasks[j].run.company)
    /\ tasks[i].run.company["domain"] = tasks[j].run.company["domain"]

\* the store holds one row for the company's domain, and it is, column by
\* column, the row the INSERT of lines 526-537 / 577-588 writes for it
OneRowWrittenFor(d, company) ==
    \E r \in d.companies :
        /\ r.domain = company["domain"]
        /\ \A r2 \in d.companies : r2.domain = r.domain => r2 = r
        /\ r = company_row(r.id, company)

BothLeadsIn(d, a, b) ==
    \E l1, l2 \in d.leads : l1 # l2 /\ l1.lead_id = a /\ l2.lead_id = b

\* C20: for every interleaving of two concurrently running pipeline runs that
\* resolve the same domain, once both have executed their persistence step
\* the store has exactly one Company row for the domain, all of its fields
\* written by the run that persisted last, and it holds the Leads of both.
C20_LastWriteWins ==
    [][\A i, j \in DOMAIN tasks :
          LastOfTwoPersists(i, j)
             => /\ OneRowWrittenFor(db', tasks[j].run.company)
                /\ BothLeadsIn(db', tasks[i].run.lead_id, tasks[j].run.lead_id)]_vars

\* what does hold: when the later save commits, the row is its row, whole, and
\* both Leads are stored; when it is refused, the store is left as it was
C20_LastCommittedWriteWins ==
    [][\A i, j \in DOMAIN tasks :
          LastOfTwoPersists(i, j) /\ tasks[i].pc = "done"
             => IF tasks'[j].pc = "done"
                THEN /\ OneRowWrittenFor(db', tasks[j].run.company)
                     /\ BothLeadsIn(db', tasks[i].run.lead_id, tasks[j].run.lead_id)
                ELSE /\ db' = db
                     /\ tasks[j].run.lead_id = tasks[i].run.lead_id]_vars

\* two runs interleaved at their awaits, both saved, the later one with
\* another payload for the same domain
C20_RaceCommitted ==
    \E i, j \in DOMAIN tasks :
        /\ i # j /\ tasks[i].pc = "done" /\ tasks[j].pc = "done"
        /\ tasks[j].started < tasks[i].run.n /\ tasks[i].run.n < tasks[j].run.n
        /\ HasDomain(tasks[i].run.company)
        /\ HasDomain(tasks[j].run.company)
        /\ tasks[i].run.company["domain"] = tasks[j].run.company["domain"]
        /\ tasks[i].run.company # tasks[j].run.company

-----------------------------------------------------------------------------
(* C21 - the order of the stages *)

Awaits == {"ipinfo", "apollo", "hunter", "openai", "slack"}

\* the place of a pc in the pipeline: not started, an await, ended
StageRank(pc) ==
    CASE pc = "queued" -> 0 [] pc = "ipinfo" -> 1 [] pc = "apollo" -> 2
      [] pc = "hunter" -> 3 [] pc = "openai" -> 4 [] pc = "slack" -> 5
      [] OTHER -> 6

CallsInOrder(calls) ==
    \A a, b \in DOMAIN calls : a < b => StageRank(calls[a]) < StageRank(calls[b])

\* the step issues no request, or one, which is then the one the task awaits
AtMostOneIssued(before, after) ==
    \/ after.run.calls = before.run.calls /\ after.pc \notin Awaits \ {before.pc}
    \/ /\ after.run.calls = Append(before.run.calls, after.pc)
       /\ after.pc \in Awaits

StoreRows(d) == <<d.companies, d.contacts, d.leads>>

\* the task ends its scoring stage in this step
EndsScoring(before, after) ==
    /\ StageRank(before.pc) <= 4
    /\ after.pc \in {"slack", "done"}
    /\ after.run.engine # "none"

\* C21: within one run the external requests are issued one at a time, each
\* only when the one before it has been answered, in the order IP resolver
\* (anonymous pathway only), domain resolver, contact resolver, scoring
\* engine, notifier; Company, Contact and Lead rows are written only by the
\* step that ends the scoring stage; the notifier is awaited only with the
\* run's Lead in the store; and a task never goes back to an earlier stage.
C21_StageOrdering ==
    [][/\ \A i \in DOMAIN tasks :
            /\ AtMostOneIssued(tasks[i], tasks'[i])
            /\ CallsInOrder(tasks'[i].run.calls)
            /\ tasks'[i].kind = "rb2b" => \A k \in DOMAIN tasks'[i].run.calls :
                                             tasks'[i].run.calls[k] # "ipinfo"
            /\ tasks'[i].pc # tasks[i].pc => StageRank(tasks'[i].pc) > StageRank(tasks[i].pc)
            /\ tasks'[i].pc = "slack"
                  => \E l \in db'.leads : /\ l.lead_id = tasks'[i].run.lead_id
                                          /\ l.source = (IF tasks'[i].kind = "rb2b"
                                                         THEN "rb2b" ELSE "tracking")
       /\ StoreRows(db') # StoreRows(db)
            => \E i \in DOMAIN tasks :
                  /\ EndsScoring(tasks[i], tasks'[i])
                  /\ HasLead(db', tasks'[i].run.lead_id)
                  /\ ~HasLead(db, tasks'[i].run.lead_id)]_vars

\* a visit that went through every stage
C21_Witness ==
    \E i \in DOMAIN tasks :
        /\ tasks[i].pc = "done"
        /\ tasks[i].run.calls = <<"ipinfo", "apollo", "hunter", "openai", "slack">>
        /\ HasLead(db, tasks[i].run.lead_id)

-----------------------------------------------------------------------------
(* C22 - a failing notifier *)

\* the alert awaited by task i ends in this step
AlertEnds(i) == tasks[i].pc = "slack" /\ tasks'[i].pc # "slack"

RowsOfRun(d, run) ==
    <<{l \in d.leads : l.lead_id = run.lead_id},
      {c \in d.companies : c.id = run.company_id},
      {c \in d.contacts : c.company_id = run.company_id}>>

\* C22: when the alert for a hot lead ends, with a response or with an
\* exception of the post, the run completes normally ("done"), the store is
\* left as the run's save wrote it (its Lead, Company and Contact rows
\* included), and the run has issued the alert once; no further request
\* follows it.
C22_NotifierFailureSwallowed ==
    [][\A i \in DOMAIN tasks :
          AlertEnds(i)
             => /\ tasks'[i].pc = "done" /\ tasks'[i].run.outcome = "done"
                /\ tasks'[i].run.alert \in {"posted", "swallowed"}
                /\ db' = db
                /\ RowsOfRun(db', tasks'[i].run) = RowsOfRun(db, tasks[i].run)
                /\ HasLead(db', tasks'[i].run.lead_id)
                /\ Alerts(tasks'[i].run) = 1
                /\ tasks'[i].run.calls = tasks[i].run.calls]_vars

\* a hot lead with company and contacts whose alert raised
C22_Witness ==
    \E i \in DOMAIN tasks :
        /\ tasks[i].pc = "done" /\ tasks[i].run.alert = "swallowed"
        /\ Get(tasks[i].run.scoring, "tier", NULL) = "hot"
        /\ \E l \in RowsOfRun(db, tasks[i].run)[1] : l.company_id = tasks[i].run.company_id
        /\ RowsOfRun(db, tasks[i].run)[2] # {}
        /\ RowsOfRun(db, tasks[i].run)[3] # {}

-----------------------------------------------------------------------------
(* C23 - the scoring gate of the anonymous pathway *)

\* the last run is an anonymous run that got past the local-IP check
VisitorRan == last.kind = "visitor" /\ last.outcome \in {"done", "crashed"}

EngineAsked(run) == \E k \in DOMAIN run.calls : run.calls[k] = "openai"

\* C23: on the anonymous pathway the scoring engine is asked if and only if
\* the IP resolver produced a non-empty organization name and a scoring
\* credential is configured, and it is asked with an empty person context;
\* when the engine returns a scoring object and the run persists its Lead,
\* the Lead's score and tier are the engine's, with no bonus and no
\* re-derived tier.
C23_AnonymousScoringGate ==
    VisitorRan =>
        /\ EngineAsked(last) <=> (last.identified # "" /\ settings.openai_api_key # "")
        /\ last.identified = Str(company_name_of(last.org))
        /\ EngineAsked(last) => /\ last.asked.person_data = EmptyDict
                                /\ last.asked.visit_data = visitor_visit_data(last.event)
        /\ ~EngineAsked(last) => last.engine = "failed" /\ last.asked = EmptyDict
        /\ (last.outcome = "done" /\ last.engine = "object") =>
              /\ HasLead(db, last.lead_id)
              /\ \A k \in {"icp_score", "tier"} \cap DOMAIN last.raw :
                    LeadOf(db, last.lead_id)[k] = last.raw[k]

\* the engine returned 60/"cold" for a visit: the Lead holds 60/"cold", where
\* the identified-person pathway would hold 75/"hot"
C23_Witness ==
    /\ VisitorRan /\ last.outcome = "done"
    /\ last.raw = ScoringObject(60, "cold")
    /\ LeadOf(db, last.lead_id).icp_score = 60
    /\ LeadOf(db, last.lead_id).tier = "cold"
    /\ rb2b_bonus(last.raw)["tier"] = "hot"

-----------------------------------------------------------------------------
(* C24 - the company shell and its replacement *)

\* the last run got past its precondition
PipelineRan == last.outcome \in {"done", "crashed"}

Asked(run, service) == \E k \in DOMAIN run.calls : run.calls[k] = service

ShellFields == {"name", "domain", "industry", "employee_count", "country"}

\* the e-mail of the event and the part after its last "@"
EmailOf(run) == IF EventEmail(run, "Email") # <<>> THEN EventEmail(run, "Email")
                ELSE EventEmail(run, "email")

AfterLastAt(email) ==
    IF \E k \in DOMAIN email : email[k] = "@"
    THEN SubSeq(email, 1 + CHOOSE k \in DOMAIN email :
                              /\ email[k] = "@"
                              /\ \A m \in DOMAIN email : m > k => email[m] # "@",
                Len(email))
    ELSE <<>>

\* the employer name the event supplies
EmployerOf(run) ==
    IF "Company" \in DOMAIN run.event /\ run.event["Company"] # "" THEN run.event["Company"]
    ELSE IF "company" \in DOMAIN run.event THEN run.event["company"]
    ELSE ""

\* the record is built from an organization the company resolver was given
FromResolver(company) ==
    \E r \in world.apollo :
        /\ r.kind = "http" /\ r.status = 200 /\ "organization" \in DOMAIN r.body
        /\ \A k \in {"name", "country", "industry", "city"} :
              company[k] = IF k \in DOMAIN r.body["organization"]
                           THEN r.body["organization"][k]
                           ELSE IF k = "industry" THEN "Unknown" ELSE ""

\* C24: the domain resolver and the contact resolver are asked only when a
\* domain was resolved; when the domain resolver succeeds the run's company
\* record is the resolver's record, with nothing of the shell in it; when it
\* fails or is not asked the company record is the shell: on the anonymous
\* pathway named after the resolved organization, or "Unknown", with the
\* IP-resolved domain; on the identified-person pathway named after the
\* supplied employer, or else the e-mail domain, with the e-mail domain.
C24_ShellAndReplacement ==
    PipelineRan =>
        /\ Asked(last, "apollo") => last.domain # ""
        /\ Asked(last, "hunter") => last.domain # ""
        /\ last.enrichment.success =>
              /\ Asked(last, "apollo")
              /\ last.company = last.enrichment.data
              /\ FromResolver(last.company)
        /\ ~last.enrichment.success =>
              /\ DOMAIN last.company = ShellFields
              /\ last.company.domain = last.domain
              /\ last.company.industry = "Unknown" /\ last.company.employee_count = 0
              /\ last.kind = "visitor" =>
                    /\ last.domain = Str(guess_domain(company_name_of(last.org)))
                    /\ last.company.name = IF company_name_of(last.org) # <<>>
                                           THEN Str(company_name_of(last.org))
                                           ELSE "Unknown"
              /\ last.kind = "rb2b" =>
                    /\ last.domain = Str(AfterLastAt(EmailOf(last)))
                    /\ last.company.name = IF EmployerOf(last) # "" THEN EmployerOf(last)
                                           ELSE last.domain
                    /\ last.company.country = ""

\* John's employer is supplied as "Shopify"; the resolver names the company
\* "Shopify Inc." in the United States, and that is the run's company
C24_Witness ==
    /\ PipelineRan /\ last.kind = "rb2b"
    /\ last.enrichment.success
    /\ EmployerOf(last) = "Shopify"
    /\ last.company.name = "Shopify Inc."
    /\ last.company.country = "United States"

-----------------------------------------------------------------------------
(* C25 - short-circuits make no network call *)

LocalAddresses == {"", "127.0.0.1", "::1", "localhost"}

Occurrences(calls, service) == Cardinality({k \in DOMAIN calls : calls[k] = service})

\* what each resolver returns on an input it answers by itself, whatever the
\* service would have answered
ShortCircuitResults ==
    /\ \A ip \in LocalAddresses : \A r \in world.ipinfo :
          lookup_company_from_ip(ip, settings.ipinfo_token, r) = Failure("Local/missing IP")
    /\ \A domain \in {"", "shopify.com"} : \A api_key \in {"", "a-key"} :
          (domain = "" \/ api_key = "") =>
              /\ \A r \in world.apollo :
                    ~enrich_company_apollo(domain, api_key, r).success
              /\ \A r \in world.hunter :
                    find_contacts_hunter(domain, api_key, r)
                        = [success |-> FALSE, contacts |-> <<>>]
    /\ \A r \in world.openai : score_lead_openai("", r) = Failure("No OpenAI key")

\* C25: a resolver asked about an empty or local address, or without its
\* credential or without a domain, and the scoring engine without its
\* credential, return failure and issue no request: no run holds a request to
\* the IP resolver for such an address, to the company or contact resolver
\* with an empty credential or domain, or to the engine with an empty
\* credential.  No service is asked more than once in a run.
C25_ShortCircuitsMakeNoCall ==
    /\ ShortCircuitResults
    /\ \A i \in DOMAIN tasks :
          /\ Asked(tasks[i].run, "ipinfo") => tasks[i].run.ip \notin LocalAddresses
          /\ Asked(tasks[i].run, "apollo") =>
                tasks[i].run.domain # "" /\ settings.apollo_api_key # ""
          /\ Asked(tasks[i].run, "hunter") =>
                tasks[i].run.domain # "" /\ settings.hunter_api_key # ""
          /\ Asked(tasks[i].run, "openai") => settings.openai_api_key # ""
          /\ \A service \in Awaits : Occurrences(tasks[i].run.calls, service) <= 1

\* every credential is set and the e-mail has no domain: the run came to its
\* end having asked the engine only
C25_Witness ==
    \E i \in DOMAIN tasks :
        /\ tasks[i].pc = "done" /\ tasks[i].kind = "rb2b"
        /\ settings.apollo_api_key # "" /\ settings.hunter_api_key # ""
        /\ tasks[i].run.domain = ""
        /\ ~Asked(tasks[i].run, "apollo") /\ ~Asked(tasks[i].run, "hunter")
        /\ Asked(tasks[i].run, "openai")

-----------------------------------------------------------------------------
(* C26 - pathway tagging of Leads *)

HasPrefix(id, prefix) == Len(id) >= Len(prefix) /\ SubSeq(id, 1, Len(prefix)) = prefix

EmptyVisitContext(l) ==
    /\ l.session_id = "" /\ l.ip_address = ""
    /\ l.pages_viewed = <<>> /\ l.visit_duration = 0 /\ l.referrer = ""

EmptyPersonFields(l) ==
    /\ l.person_name = "" /\ l.person_email = ""
    /\ l.person_title = "" /\ l.person_linkedin = ""

\* the Lead carries the session, pages, duration and referrer of the event,
\* and the address the visit was resolved to
VisitContextOf(l, visitor, ip) ==
    /\ l.session_id = Str(visitor.session_id) /\ l.ip_address = ip
    /\ l.pages_viewed = visitor.pages_viewed
    /\ l.visit_duration = visitor.visit_duration /\ l.referrer = visitor.referrer

\* the Lead carries the name, e-mail, title and profile URL of the event
PersonFieldsOf(l, rb2b_data) ==
    /\ l.person_name = person_data(rb2b_data).name
    /\ l.person_email = Str(EventEmail([event |-> rb2b_data], "Email") \o
                            (IF EventEmail([event |-> rb2b_data], "Email") = <<>>
                             THEN EventEmail([event |-> rb2b_data], "email") ELSE <<>>))
    /\ l.person_email # ""
    /\ l.person_title = rb2b_field(rb2b_data, "Title", "title")
    /\ l.person_linkedin = rb2b_field(rb2b_data, "LinkedIn URL", "linkedin_url")

\* C26: every stored Lead of source "rb2b" has an identifier that begins with
\* "rb2b_", the person fields of an event and an empty visit context; every
\* other stored Lead has source "tracking", an identifier that begins with
\* "lead_", the visit context of a visit and empty person fields; the Lead a
\* run of the identified-person pathway stored is of the first sort and
\* carries its event's person, the Lead a run of the anonymous pathway stored
\* is of the second sort and carries its event's visit; identifiers of Leads
\* of different sources differ.
C26_PathwayTagging ==
    /\ \A l \in db.leads :
          /\ l.source \in {"rb2b", "tracking"}
          /\ l.source = "rb2b" =>
                /\ HasPrefix(l.lead_id, "rb2b_")
                /\ EmptyVisitContext(l)
                /\ \E rb2b_data \in world.rb2b : PersonFieldsOf(l, rb2b_data)
          /\ l.source = "tracking" =>
                /\ HasPrefix(l.lead_id, "lead_")
                /\ EmptyPersonFields(l)
                /\ \E request \in world.visits :
                      VisitContextOf(l, request.visitor,
                                     IF request.visitor.ip_address \notin {NULL, ""}
                                     THEN request.visitor.ip_address
                                     ELSE request.client_ip)
    /\ \A l, m \in db.leads : l.source # m.source => l.lead_id # m.lead_id
    /\ last.outcome = "done" =>
          \E l \in db.leads :
              /\ l.lead_id = last.lead_id
              /\ last.kind = "rb2b" =>
                    l.source = "rb2b" /\ PersonFieldsOf(l, last.event)
              /\ last.kind = "visitor" =>
                    l.source = "tracking" /\ VisitContextOf(l, last.event, last.ip)

\* a Lead of each pathway is stored: John Smith's, with no visit, and the
\* visit of the pricing page from 8.8.8.8, with no person
C26_Witness ==
    /\ \E l \in db.leads :
          /\ l.source = "rb2b" /\ l.person_name = "John Smith"
          /\ l.person_email = "john.smith@shopify.com"
          /\ l.person_title = "VP of Marketing"
          /\ l.person_linkedin = "https://www.linkedin.com/in/johnsmith/"
          /\ l.session_id = "" /\ l.pages_viewed = <<>>
    /\ \E l \in db.leads :
          /\ l.source = "tracking" /\ l.ip_address = "8.8.8.8"
          /\ l.session_id = "sess-0001-a" /\ l.visit_duration = 120
          /\ l.person_email = ""

-----------------------------------------------------------------------------
(* C27 - the contact resolver keeps the first five records *)

\* the contacts are the first records of the answer, one for one and in order
FirstRecordsOf(contacts, emails) ==
    /\ Len(contacts) = (IF Len(emails) < 5 THEN Len(emails) ELSE 5)
    /\ \A i \in DOMAIN contacts :
          contacts[i].email = Get(emails[i], "value", "")

\* what the resolver returns for each answer of the provider
ContactResolverResults ==
    \A domain \in {"", "shopify.com"} : \A api_key \in {"", "hunter-key"} :
    \A r \in world.hunter :
        /\ Len(find_contacts_hunter(domain, api_key, r).contacts) <= 5
        /\ IF domain # "" /\ api_key # "" /\ r.kind = "http" /\ r.status = 200
           THEN FirstRecordsOf(find_contacts_hunter(domain, api_key, r).contacts, r.emails)
           ELSE find_contacts_hunter(domain, api_key, r).contacts = <<>>

\* C27: the contact resolver returns at most five contacts, the first (up to)
\* five records of the provider's answer in the provider's order, and an empty
\* list when the credential or the domain is missing, the response is not a
\* success or the request raised; a run whose contact list is empty adds no
\* Contact row to the store, and no run adds more than five.
C27_ContactResolverCap ==
    [][/\ ContactResolverResults
       /\ RunStep =>
             /\ Len(last'.contacts) <= 5
             /\ Cardinality(db'.contacts \ db.contacts) <= Len(last'.contacts)
             /\ last'.contacts = <<>> => db'.contacts = db.contacts]_vars

\* the provider returned six records; the run took the first five, in order,
\* and stored five Contact rows
C27_Witness ==
    /\ last.outcome = "done"
    /\ Len(last.contacts) = 5
    /\ \A i \in 1..5 : last.contacts[i].email = "c" \o ToString(i) \o "@shopify.com"
    /\ Cardinality({c \in db.contacts : c.company_id = last.company_id}) = 5

-----------------------------------------------------------------------------
(* C28 - the domain of an e-mail, and an e-mail without "@" *)

\* the one Lead the step added
AddedLead(before, after) == CHOOSE l \in after.leads : l \notin before.leads

\* C28: a run of the identified-person pathway takes for its domain the part
\* of the e-mail after its last "@"; when the e-mail is not empty and holds no
\* "@" the domain is empty, the run asks neither the company resolver nor the
\* contact resolver, writes no Company and no Contact row, and, when it
\* returns, has stored exactly one Lead, linked to no company and carrying the
\* person fields of the event.
C28_EmailDomain ==
    [][(RunStep /\ last'.kind = "rb2b" /\ last'.outcome \in {"done", "crashed"}) =>
          /\ last'.domain = Str(AfterLastAt(EmailOf(last')))
          /\ (EmailOf(last') # <<>> /\ \A k \in DOMAIN EmailOf(last') : EmailOf(last')[k] # "@") =>
                /\ last'.domain = ""
                /\ ~Asked(last', "apollo") /\ ~Asked(last', "hunter")
                /\ db'.companies = db.companies
                /\ db'.contacts = db.contacts
                /\ last'.outcome = "done" =>
                      /\ Cardinality(db'.leads \ db.leads) = 1
                      /\ db.leads \subseteq db'.leads
                      /\ AddedLead(db, db').lead_id = last'.lead_id
                      /\ AddedLead(db, db').company_id = NoId
                      /\ PersonFieldsOf(AddedLead(db, db'), last'.event)]_vars

\* with every resolver answering, the event of "nobody" left one orphan Lead
\* and no Company; the only Company is that of the run before, whose e-mail
\* with two "@" gave the domain after the second
C28_Witness ==
    /\ last.kind = "rb2b" /\ last.outcome = "done"
    /\ last.email = "nobody" /\ last.domain = ""
    /\ settings.apollo_api_key # "" /\ settings.hunter_api_key # ""
    /\ \E l \in db.leads :
          /\ l.lead_id = last.lead_id /\ l.company_id = NoId
          /\ l.person_name = "John Smith" /\ l.person_email = "nobody"
    /\ \E l \in db.leads :
          /\ l.person_email = "j@x@shopify.com"
          /\ \A c \in db.companies : c.id = l.company_id /\ c.domain = "shopify.com"
    /\ db.companies # {}

=============================================================================
